---- MODULE Spec2Model ----
(***************************************************************************)
(* Model of the viva registry: VivaContext (src/src/context.rs), VivaEnv   *)
(* and DefaultEnvCollection (src/src/models/environment.rs), VivaApp and   *)
(* DefaultAppCollection (src/src/models/app.rs) and the spec codec         *)
(* (src/src/models/mod.rs).                                                *)
(*                                                                         *)
(* Environment assumptions: filesystem calls on existing paths succeed;    *)
(* the Materializer (rattler create) either succeeds or fails, chosen      *)
(* nondeterministically at every call; a Rust panic ends the process.      *)
(***************************************************************************)
EXTENDS Integers, Sequences, FiniteSets, TLC

(***************************************************************************)
(* Bounds and input domains                                                *)
(***************************************************************************)
MaxOps == 3

EnvIds == {"default", "e1"}
AppIds == {"a1", "a2"}
CollectionIds == {"default", "other"}
BasePaths == {"b1", "b2"}

EmptyMap == [x \in {} |-> x]

Put(m, k, v) == [x \in (DOMAIN m) \cup {k} |-> IF x = k THEN v ELSE m[x]]

Remove(m, k) == [x \in (DOMAIN m) \ {k} |-> m[x]]

Contains(s, x) == \E i \in 1..Len(s) : s[i] = x

\* Vec::sort on a Vec<String> of ids (ids are ordered by the listing below).
IdOrder == <<"a1", "a2", "default", "e1", "other">>

IdRank(x) == CHOOSE i \in 1..Len(IdOrder) : IdOrder[i] = x

RECURSIVE SortedSeq(_)
SortedSeq(S) ==
    IF S = {} THEN << >>
    ELSE LET m == CHOOSE x \in S : \A y \in S : IdRank(x) <= IdRank(y)
         IN <<m>> \o SortedSeq(S \ {m})

Occurrences(s, x) == Cardinality({i \in 1..Len(s) : s[i] = x})

(***************************************************************************)
(* VivaEnvSpec and the merge engine                                        *)
(***************************************************************************)
VivaEnvSpec(ch, ps) == [channels |-> ch, pkg_specs |-> ps]

VivaEnvSpec_new == VivaEnvSpec(<< >>, << >>)

check_for_new_pkg_specs(orig_matchspec, new_matchspec) ==
    SelectSeq(new_matchspec, LAMBDA spec : ~Contains(orig_matchspec, spec))

check_for_new_channels(orig_channels, new_channels) ==
    SelectSeq(new_channels, LAMBDA channel : ~Contains(orig_channels, channel))

\* impl PartialEq for VivaEnvSpec: pkg_specs compared as sequences, channels
\* compared after sorting, that is as multisets.
VivaEnvSpec_eq(self, other) ==
    IF self.pkg_specs # other.pkg_specs THEN FALSE
    ELSE /\ Len(self.channels) = Len(other.channels)
         /\ \A i \in 1..Len(self.channels) :
               Cardinality({j \in 1..Len(self.channels) : self.channels[j] = self.channels[i]})
               = Cardinality({j \in 1..Len(other.channels) : other.channels[j] = self.channels[i]})

is_satisfied_by_exact(self, other_spec) == self = other_spec

is_satisfied_by_channels_only(self, other_spec) ==
    check_for_new_channels(other_spec.channels, self.channels) = << >>

is_satisfied_by(self, other_spec) ==
    IF check_for_new_channels(other_spec.channels, self.channels) # << >>
    THEN FALSE
    ELSE IF check_for_new_pkg_specs(other_spec.pkg_specs, self.pkg_specs) # << >>
         THEN FALSE
         ELSE TRUE

(***************************************************************************)
(* VivaEnv: the record kept per registered environment.  id, env_path and  *)
(* actual_spec_path are functions of the registry key and are not stored.  *)
(***************************************************************************)
VivaEnv_create(collection_id, spec, actual, sync_status) ==
    [collection_id |-> collection_id, spec |-> spec,
     actual |-> actual, sync_status |-> sync_status]

check_and_update_sync_status_inverted(env) ==
    [env EXCEPT !.sync_status =
        IF is_satisfied_by(env.spec, env.actual) THEN "NotSynced" ELSE "Synced"]

check_and_update_sync_status(env) ==
    [env EXCEPT !.sync_status =
        IF is_satisfied_by(env.spec, env.actual) THEN "Synced" ELSE "NotSynced"]

add_channels_loop_replaces(env, channels) ==
    [env EXCEPT !.spec.channels = channels, !.sync_status = "Unknown"]

RECURSIVE add_channels_loop(_, _)
add_channels_loop(env, channels) ==
    IF channels = << >> THEN env
    ELSE LET channel == Head(channels)
             e2 == IF ~Contains(env.spec.channels, channel)
                   THEN [env EXCEPT !.spec.channels = Append(@, channel),
                                    !.sync_status = "Unknown"]
                   ELSE env
         IN add_channels_loop(e2, Tail(channels))

add_channels_no_recheck(env, channels) == add_channels_loop(env, channels)

add_channels(env, channels) ==
    check_and_update_sync_status(add_channels_loop(env, channels))

remove_channels(env, channels) ==
    [env EXCEPT !.spec.channels = SelectSeq(@, LAMBDA c : ~Contains(channels, c))]

RECURSIVE add_pkg_specs_loop_appends_all(_, _)
add_pkg_specs_loop_appends_all(env, pkg_specs) ==
    IF pkg_specs = << >> THEN env
    ELSE add_pkg_specs_loop_appends_all(
             [env EXCEPT !.spec.pkg_specs = Append(@, Head(pkg_specs)),
                         !.sync_status = "Unknown"],
             Tail(pkg_specs))

RECURSIVE add_pkg_specs_loop(_, _)
add_pkg_specs_loop(env, pkg_specs) ==
    IF pkg_specs = << >> THEN env
    ELSE LET pkg_spec == Head(pkg_specs)
             e2 == IF ~Contains(env.spec.pkg_specs, pkg_spec)
                   THEN [env EXCEPT !.spec.pkg_specs = Append(@, pkg_spec),
                                    !.sync_status = "Unknown"]
                   ELSE env
         IN add_pkg_specs_loop(e2, Tail(pkg_specs))

add_pkg_specs_no_recheck(env, pkg_specs) == add_pkg_specs_loop(env, pkg_specs)

add_pkg_specs(env, pkg_specs) ==
    check_and_update_sync_status(add_pkg_specs_loop(env, pkg_specs))

merge_spec(env, spec) ==
    add_pkg_specs(add_channels(env, spec.channels), spec.pkg_specs)

sync_writes_on_failure(env, create_ok) ==
    LET e1 == IF env.sync_status = "Unknown"
              THEN check_and_update_sync_status(env) ELSE env
    IN IF e1.sync_status = "Synced"
       THEN [env |-> e1, ret |-> "Ok(false)", invoked |-> FALSE, wrote |-> FALSE]
       ELSE IF create_ok
            THEN [env |-> [e1 EXCEPT !.actual = e1.spec, !.sync_status = "Synced"],
                  ret |-> "Ok(true)", invoked |-> TRUE, wrote |-> TRUE]
            ELSE [env |-> e1, ret |-> "Err", invoked |-> TRUE, wrote |-> TRUE]

sync_trusts_stale_status(env, create_ok) ==
    IF env.sync_status = "Synced"
    THEN [env |-> env, ret |-> "Ok(false)", invoked |-> FALSE, wrote |-> FALSE]
    ELSE IF create_ok
         THEN [env |-> [env EXCEPT !.actual = env.spec, !.sync_status = "Synced"],
               ret |-> "Ok(true)", invoked |-> TRUE, wrote |-> TRUE]
         ELSE [env |-> check_and_update_sync_status(env), ret |-> "Err",
               invoked |-> TRUE, wrote |-> FALSE]

sync_forgets_actual(env, create_ok) ==
    LET e1 == IF env.sync_status = "Unknown"
              THEN check_and_update_sync_status(env) ELSE env
    IN IF e1.sync_status = "Synced"
       THEN [env |-> e1, ret |-> "Ok(false)", invoked |-> FALSE, wrote |-> FALSE]
       ELSE IF create_ok
            THEN [env |-> [e1 EXCEPT !.sync_status = "Synced"],
                  ret |-> "Ok(true)", invoked |-> TRUE, wrote |-> TRUE]
            ELSE [env |-> e1, ret |-> "Err", invoked |-> TRUE, wrote |-> FALSE]

sync_records_failed_create(env, create_ok) ==
    LET e1 == IF env.sync_status = "Unknown"
              THEN check_and_update_sync_status(env) ELSE env
    IN IF e1.sync_status = "Synced"
       THEN [env |-> e1, ret |-> "Ok(false)", invoked |-> FALSE, wrote |-> FALSE]
       ELSE IF create_ok
            THEN [env |-> [e1 EXCEPT !.actual = e1.spec, !.sync_status = "Synced"],
                  ret |-> "Ok(true)", invoked |-> TRUE, wrote |-> TRUE]
            ELSE [env |-> [e1 EXCEPT !.actual = e1.spec], ret |-> "Err",
                  invoked |-> TRUE, wrote |-> FALSE]

\* VivaEnv::sync.  create_ok is the outcome of the Materializer call, used
\* only when the call is made.  invoked: the Materializer was called;
\* wrote: the actual-spec file was written with the JSON text of env.spec.
sync(env, create_ok) ==
    LET e1 == IF env.sync_status = "Unknown"
              THEN check_and_update_sync_status(env) ELSE env
    IN IF e1.sync_status = "Synced"
       THEN [env |-> e1, ret |-> "Ok(false)", invoked |-> FALSE, wrote |-> FALSE]
       ELSE IF create_ok
            THEN [env |-> [e1 EXCEPT !.actual = e1.spec, !.sync_status = "Synced"],
                  ret |-> "Ok(true)", invoked |-> TRUE, wrote |-> TRUE]
            ELSE [env |-> e1, ret |-> "Err", invoked |-> TRUE, wrote |-> FALSE]

(***************************************************************************)
(* Spec codec.  A document is the text of a file: its syntax and the data  *)
(* it denotes.  Syntax "json" is JSON text that is also valid YAML (what   *)
(* serde_json::to_string produces), "json_only" is JSON text the YAML      *)
(* scanner rejects (a string with the surrogate-pair escape of an emoji,   *)
(* \uD83D \uDE00), "yaml" is YAML text that is not JSON, "none" is neither. *)
(* The data is the tree the text denotes: strings, arrays, and objects as  *)
(* the sequence of their <<key, value>> members in the order of the text.  *)
(***************************************************************************)
Ok(v) == [ok |-> TRUE, value |-> v]

Err == [ok |-> FALSE]

JString(s) == [t |-> "str", v |-> s]

JArray(items) == [t |-> "arr", v |-> items]

JObject(members) == [t |-> "obj", v |-> members]

\* impl Serialize for Vec<String>
Serialize_Vec(v) == JArray([i \in 1..Len(v) |-> JString(v[i])])

\* derive(Serialize) on VivaEnvSpec: the fields, in declaration order.
Serialize_VivaEnvSpec_skips_empty(spec) ==
    JObject(SelectSeq(<< <<"channels", Serialize_Vec(spec.channels)>>,
                         <<"pkg_specs", Serialize_Vec(spec.pkg_specs)>> >>,
                      LAMBDA m : m[2].v # << >>))

Serialize_VivaEnvSpec(spec) ==
    JObject(<< <<"channels", Serialize_Vec(spec.channels)>>,
               <<"pkg_specs", Serialize_Vec(spec.pkg_specs)>> >>)

\* derive(Serialize) on VivaAppSpec.
Serialize_VivaAppSpec(spec) ==
    JObject(<< <<"executable", JString(spec.executable)>>,
               <<"args", Serialize_Vec(spec.args)>>,
               <<"env_spec", Serialize_VivaEnvSpec(spec.env_spec)>> >>)

\* T: Serialize, for the types that are written: a spec, or a BTreeMap from
\* ids to specs (its entries in key order).
Serialize(v) ==
    IF DOMAIN v = {"channels", "pkg_specs"} THEN Serialize_VivaEnvSpec(v)
    ELSE IF DOMAIN v = {"executable", "args", "env_spec"} THEN Serialize_VivaAppSpec(v)
    ELSE LET keys == SortedSeq(DOMAIN v)
         IN JObject([i \in 1..Len(keys) |->
                        <<keys[i],
                          IF DOMAIN v[keys[i]] = {"channels", "pkg_specs"}
                          THEN Serialize_VivaEnvSpec(v[keys[i]])
                          ELSE Serialize_VivaAppSpec(v[keys[i]])>>])

\* The members of an object with the given key.
Members(data, key) == SelectSeq(data.v, LAMBDA m : m[1] = key)

\* impl Deserialize for String and for Vec<String>
Deserialize_String(data) ==
    IF data.t = "str" THEN Ok(data.v) ELSE Err

Deserialize_Vec(data) ==
    IF data.t = "arr" /\ \A i \in 1..Len(data.v) : data.v[i].t = "str"
    THEN Ok([i \in 1..Len(data.v) |-> data.v[i].v])
    ELSE Err

\* A field of a derive(Deserialize) struct: present exactly once (a missing
\* field and a duplicate field are errors; unknown fields are ignored).
TheMember(members) == IF Len(members) = 1 THEN Ok(members[1][2]) ELSE Err

Field(data, key) == TheMember(IF data.t = "obj" THEN Members(data, key) ELSE << >>)

\* The struct built from its decoded fields, or the error of one of them.
FromFields(fields) ==
    IF \A key \in DOMAIN fields : fields[key].ok
    THEN Ok([key \in DOMAIN fields |-> fields[key].value])
    ELSE Err

VecField(field) == IF field.ok THEN Deserialize_Vec(field.value) ELSE Err

Deserialize_VivaEnvSpec(data) ==
    FromFields([key \in {"channels", "pkg_specs"} |-> VecField(Field(data, key))])

AppField(key, field) ==
    IF ~field.ok THEN Err
    ELSE IF key = "executable" THEN Deserialize_String(field.value)
    ELSE IF key = "args" THEN Deserialize_Vec(field.value)
    ELSE Deserialize_VivaEnvSpec(field.value)

Deserialize_VivaAppSpec(data) ==
    FromFields([key \in {"executable", "args", "env_spec"} |->
                   AppField(key, Field(data, key))])

\* T: Deserialize, for T = "VivaEnvSpec" and T = "VivaAppSpec".
Deserialize(T, data) ==
    IF T = "VivaEnvSpec" THEN Deserialize_VivaEnvSpec(data)
    ELSE Deserialize_VivaAppSpec(data)

\* The map built from the members of an object and their decoded values:
\* every member is inserted, so the last member with a key wins.
FromMembers(members, values) ==
    IF \A i \in 1..Len(members) : values[i].ok
    THEN Ok([k \in {members[i][1] : i \in 1..Len(members)} |->
                values[CHOOSE i \in 1..Len(members) :
                          /\ members[i][1] = k
                          /\ \A j \in 1..Len(members) : members[j][1] = k => j <= i].value])
    ELSE Err

\* impl Deserialize for BTreeMap<String, T>
Deserialize_BTreeMap(T, data) ==
    IF data.t = "obj"
    THEN FromMembers(data.v, [i \in 1..Len(data.v) |-> Deserialize(T, data.v[i][2])])
    ELSE Err

serde_json_to_string(v) == [syntax |-> "json", value |-> Serialize(v)]

\* The type BTreeMap<String, T>.
BTreeMap(T) ==
    IF T = "VivaEnvSpec" THEN "BTreeMap<String, VivaEnvSpec>"
    ELSE "BTreeMap<String, VivaAppSpec>"

\* T: Deserialize, for a spec type or a map of one.
DeserializeOwned(T, data) ==
    IF T \in {BTreeMap("VivaEnvSpec"), BTreeMap("VivaAppSpec")}
    THEN Deserialize_BTreeMap(IF T = BTreeMap("VivaEnvSpec") THEN "VivaEnvSpec"
                              ELSE "VivaAppSpec", data)
    ELSE Deserialize(T, data)

\* serde_json::from_str and serde_yaml::from_str into T.
serde_json_from_str(T, text) ==
    IF text.syntax \in {"json", "json_only"} THEN DeserializeOwned(T, text.value) ELSE Err

serde_yaml_from_str(T, text) ==
    IF text.syntax \in {"json", "yaml"} THEN DeserializeOwned(T, text.value) ELSE Err

parse_model_spec_json(T, spec_string) == serde_json_from_str(T, spec_string)

parse_model_spec_yaml(T, env_spec_data) == serde_yaml_from_str(T, env_spec_data)

parse_model_spec_json_only(T, env_spec_data) == parse_model_spec_json(T, env_spec_data)

parse_model_spec(T, env_spec_data) ==
    LET json_result == parse_model_spec_json(T, env_spec_data)
    IN IF json_result.ok THEN json_result ELSE parse_model_spec_yaml(T, env_spec_data)

read_model_spec_sniffs_content(T, ext, doc) == parse_model_spec(T, doc)

\* read_model_spec on an existing regular file with extension ext ("" = none).
read_model_spec(T, ext, doc) ==
    IF ext # ""
    THEN IF ext = "json" THEN parse_model_spec_json(T, doc)
         ELSE IF ext = "yaml" \/ ext = "yml" THEN parse_model_spec_yaml(T, doc)
         ELSE Err
    ELSE parse_model_spec(T, doc)

parse_models_spec_json(T, env_spec_data) == serde_json_from_str(BTreeMap(T), env_spec_data)

parse_models_spec_yaml(T, env_spec_data) == serde_yaml_from_str(BTreeMap(T), env_spec_data)

parse_models_spec(T, spec_string) ==
    LET json_result == parse_models_spec_json(T, spec_string)
    IN IF json_result.ok THEN json_result ELSE parse_models_spec_yaml(T, spec_string)

read_models_spec(T, doc) == parse_models_spec(T, doc)

write_model_spec(model_spec) == serde_json_to_string(model_spec)

write_models_spec(map) == serde_json_to_string(map)

\* Extension of the actual-spec file inside the environment directory.
ENV_SPEC_FILE_EXT == "json"

(***************************************************************************)
(* DefaultEnvCollection.  cfg is the content of the collection's base      *)
(* configuration path: cfg.collected maps the extension of an existing     *)
(* consolidated file (envs.json, envs.yaml) to its document, cfg.single    *)
(* maps <<id, extension>> of an existing file under envs/ to its document. *)
(***************************************************************************)
find_collected_envs_file(cfg) ==
    IF "json" \in DOMAIN cfg.collected THEN "json" ELSE "yaml"

find_single_env_file(cfg, env_id) ==
    IF <<env_id, "json">> \in DOMAIN cfg.single THEN "json" ELSE "yaml"

load_registered_envs_skips_malformed(base, cfg) ==
    LET envs_file == find_collected_envs_file(cfg)
        collected_read == IF envs_file \in DOMAIN cfg.collected
                          THEN read_models_spec("VivaEnvSpec", cfg.collected[envs_file])
                          ELSE Ok(EmptyMap)
        files == {f \in DOMAIN cfg.single :
                    read_model_spec("VivaEnvSpec", f[2], cfg.single[f]).ok}
        ids == {f[1] : f \in files}
        lastRead == {c \in [ids -> {f[2] : f \in files}] :
                        \A i \in ids : <<i, c[i]>> \in files}
    IN IF ~collected_read.ok THEN {Err}
       ELSE IF \E f \in files : ~read_model_spec("VivaEnvSpec", f[2], cfg.single[f]).ok THEN {Err}
       ELSE {Ok([base_config_path |-> base,
                 collected_envs |-> [i \in (DOMAIN collected_read.value) \ ids |->
                                        collected_read.value[i]],
                 single_envs |-> [i \in ids |->
                                    read_model_spec("VivaEnvSpec", c[i],
                                                    cfg.single[<<i, c[i]>>]).value],
                 collected_envs_dirty |-> (ids \cap DOMAIN collected_read.value # {}),
                 single_envs_dirty |-> << >>]) : c \in lastRead}

load_registered_envs_keeps_collected(base, cfg) ==
    LET envs_file == find_collected_envs_file(cfg)
        collected_read == IF envs_file \in DOMAIN cfg.collected
                          THEN read_models_spec("VivaEnvSpec", cfg.collected[envs_file])
                          ELSE Ok(EmptyMap)
        files == DOMAIN cfg.single
        ids == {f[1] : f \in files}
        lastRead == {c \in [ids -> {f[2] : f \in files}] :
                        \A i \in ids : <<i, c[i]>> \in files}
    IN IF ~collected_read.ok THEN {Err}
       ELSE IF \E f \in files : ~read_model_spec("VivaEnvSpec", f[2], cfg.single[f]).ok THEN {Err}
       ELSE {Ok([base_config_path |-> base,
                 collected_envs |-> [i \in DOMAIN collected_read.value |->
                                        collected_read.value[i]],
                 single_envs |-> [i \in ids |->
                                    read_model_spec("VivaEnvSpec", c[i],
                                                    cfg.single[<<i, c[i]>>]).value],
                 collected_envs_dirty |-> (ids \cap DOMAIN collected_read.value # {}),
                 single_envs_dirty |-> << >>]) : c \in lastRead}

\* The possible results of DefaultEnvCollection::create(base): read_dir
\* yields the files in an unspecified order, so when several files share a
\* stem any one of them may be read last.
load_registered_envs(base, cfg) ==
    LET envs_file == find_collected_envs_file(cfg)
        collected_read == IF envs_file \in DOMAIN cfg.collected
                          THEN read_models_spec("VivaEnvSpec", cfg.collected[envs_file])
                          ELSE Ok(EmptyMap)
        files == DOMAIN cfg.single
        ids == {f[1] : f \in files}
        lastRead == {c \in [ids -> {f[2] : f \in files}] :
                        \A i \in ids : <<i, c[i]>> \in files}
    IN IF ~collected_read.ok THEN {Err}
       ELSE IF \E f \in files : ~read_model_spec("VivaEnvSpec", f[2], cfg.single[f]).ok THEN {Err}
       ELSE {Ok([base_config_path |-> base,
                 collected_envs |-> [i \in (DOMAIN collected_read.value) \ ids |->
                                        collected_read.value[i]],
                 single_envs |-> [i \in ids |->
                                    read_model_spec("VivaEnvSpec", c[i],
                                                    cfg.single[<<i, c[i]>>]).value],
                 collected_envs_dirty |-> (ids \cap DOMAIN collected_read.value # {}),
                 single_envs_dirty |-> << >>]) : c \in lastRead}

RECURSIVE sync_single_envs(_, _, _)
sync_single_envs(coll, single, dirty) ==
    IF dirty = << >> THEN single
    ELSE LET env_id == Head(dirty)
             env_file == <<env_id, find_single_env_file([single |-> single], env_id)>>
             s2 == IF env_id \in DOMAIN coll.single_envs
                   THEN Put(single, env_file, write_model_spec(coll.single_envs[env_id]))
                   ELSE Remove(single, env_file)
         IN sync_single_envs(coll, s2, Tail(dirty))

sync_config_single_only(coll, cfg) ==
    [collected |-> cfg.collected,
     single |-> sync_single_envs(coll, cfg.single, coll.single_envs_dirty)]

\* DefaultEnvCollection::sync_config: the configuration directory afterwards.
sync_config(coll, cfg) ==
    LET envs_file == find_collected_envs_file(cfg)
        collected == IF coll.collected_envs_dirty
                     THEN Put(cfg.collected, envs_file, write_models_spec(coll.collected_envs))
                     ELSE cfg.collected
    IN [collected |-> collected,
        single |-> sync_single_envs(coll, cfg.single, coll.single_envs_dirty)]

get_env_ids_of(coll) ==
    SortedSeq(DOMAIN coll.collected_envs) \o SortedSeq(DOMAIN coll.single_envs)

collection_get_env(coll, env_id) ==
    IF env_id \in DOMAIN coll.single_envs THEN Ok(coll.single_envs[env_id])
    ELSE IF env_id \in DOMAIN coll.collected_envs THEN Ok(coll.collected_envs[env_id])
    ELSE Err

\* DefaultEnvCollection::delete_env: the collection and its directory afterwards.
delete_env(coll, cfg, env_id) ==
    LET c2 == IF env_id \in DOMAIN coll.single_envs
              THEN [coll EXCEPT !.single_envs_dirty = Append(@, env_id),
                                !.single_envs = Remove(@, env_id)]
              ELSE coll
    IN [coll |-> c2, cfg |-> sync_config(c2, cfg)]

set_env_file_only(coll, cfg, env_id, env_spec) ==
    LET cfg2 == [cfg EXCEPT !.single = Put(@, <<env_id, "yaml">>, write_model_spec(env_spec))]
    IN [coll |-> coll, cfg |-> sync_config(coll, cfg2)]

\* DefaultEnvCollection::set_env.
set_env(coll, cfg, env_id, env_spec) ==
    LET cfg2 == [cfg EXCEPT !.single = Put(@, <<env_id, "yaml">>, write_model_spec(env_spec))]
        c2 == [coll EXCEPT !.single_envs = Put(@, env_id, env_spec)]
    IN [coll |-> c2, cfg |-> sync_config(c2, cfg2)]

(***************************************************************************)
(* Apps, DefaultAppCollection and the placement resolver                   *)
(***************************************************************************)
VivaAppSpec(executable, args, env_spec) ==
    [executable |-> executable, args |-> args, env_spec |-> env_spec]

VivaApp_create(spec, app_collection_id, env_id) ==
    [spec |-> spec, app_collection_id |-> app_collection_id, env_id |-> env_id]

Strategy(kind, e_id) == [kind |-> kind, e_id |-> e_id]

\* AppEnvPlacementStrategy::from_str
from_str(strategy) ==
    CASE strategy = "--default--" -> Ok(Strategy("Default", ""))
      [] strategy = "--collection_id--" -> Ok(Strategy("CollectionId", ""))
      [] strategy = "--app_id--" -> Ok(Strategy("AppId", ""))
      [] OTHER -> Ok(Strategy("Custom", strategy))

get_env_id_for_app_ignores_custom(app_id, collection_id, placement_strategy) ==
    CASE placement_strategy.kind = "Default" -> "default"
      [] placement_strategy.kind = "Custom" -> "default"
      [] placement_strategy.kind = "CollectionId" -> collection_id
      [] placement_strategy.kind = "AppId" -> app_id

get_env_id_for_app(app_id, collection_id, placement_strategy) ==
    CASE placement_strategy.kind = "Default" -> "default"
      [] placement_strategy.kind = "Custom" -> placement_strategy.e_id
      [] placement_strategy.kind = "CollectionId" -> collection_id
      [] placement_strategy.kind = "AppId" -> app_id

load_registered_apps_keeps_consolidated(base, cfg) ==
    LET app_file == IF "json" \in DOMAIN cfg.collected THEN "json" ELSE "yaml"
        parsed_read == IF app_file \in DOMAIN cfg.collected
                       THEN read_models_spec("VivaAppSpec", cfg.collected[app_file])
                       ELSE Ok(EmptyMap)
        files == DOMAIN cfg.single
        ids == {f[1] : f \in files}
        lastRead == {c \in [ids -> {f[2] : f \in files}] :
                        \A i \in ids : <<i, c[i]>> \in files}
    IN IF ~parsed_read.ok THEN {Err}
       ELSE IF \E f \in files : ~read_model_spec("VivaAppSpec", f[2], cfg.single[f]).ok THEN {Err}
       ELSE {Ok([base_config_path |-> base,
                 registered_apps |->
                    [i \in (DOMAIN parsed_read.value) \cup ids |->
                        IF i \notin DOMAIN parsed_read.value
                        THEN read_model_spec("VivaAppSpec", c[i],
                                             cfg.single[<<i, c[i]>>]).value
                        ELSE parsed_read.value[i]]]) : c \in lastRead}

\* The possible results of DefaultAppCollection::create(base).
load_registered_apps(base, cfg) ==
    LET app_file == IF "json" \in DOMAIN cfg.collected THEN "json" ELSE "yaml"
        parsed_read == IF app_file \in DOMAIN cfg.collected
                       THEN read_models_spec("VivaAppSpec", cfg.collected[app_file])
                       ELSE Ok(EmptyMap)
        files == DOMAIN cfg.single
        ids == {f[1] : f \in files}
        lastRead == {c \in [ids -> {f[2] : f \in files}] :
                        \A i \in ids : <<i, c[i]>> \in files}
    IN IF ~parsed_read.ok THEN {Err}
       ELSE IF \E f \in files : ~read_model_spec("VivaAppSpec", f[2], cfg.single[f]).ok THEN {Err}
       ELSE {Ok([base_config_path |-> base,
                 registered_apps |->
                    [i \in (DOMAIN parsed_read.value) \cup ids |->
                        IF i \in ids
                        THEN read_model_spec("VivaAppSpec", c[i],
                                             cfg.single[<<i, c[i]>>]).value
                        ELSE parsed_read.value[i]]]) : c \in lastRead}

get_app_ids_of(coll) == SortedSeq(DOMAIN coll.registered_apps)

collection_get_app(coll, app_id) ==
    IF app_id \in DOMAIN coll.registered_apps THEN Ok(coll.registered_apps[app_id])
    ELSE Err

\* DefaultAppCollection::set_app: the collection and its directory afterwards.
set_app(coll, cfg, app_id, app_spec) ==
    [coll |-> [coll EXCEPT !.registered_apps = Put(@, app_id, app_spec)],
     cfg |-> [cfg EXCEPT !.single = Put(@, <<app_id, "json">>, write_model_spec(app_spec))]]

(***************************************************************************)
(* VivaContext: registration                                               *)
(***************************************************************************)
create_env_instance_eager(files, env_id, collection_id, env_spec) ==
    LET read == IF env_id \in DOMAIN files
                THEN read_model_spec("VivaEnvSpec", "json", files[env_id])
                ELSE Ok(VivaEnvSpec(<< >>, << >>))
    IN IF read.ok
       THEN Ok(check_and_update_sync_status(
                  VivaEnv_create(collection_id, env_spec, read.value, "Unknown")))
       ELSE Err

\* files: the actual-spec files on disk, by environment id.
create_env_instance(files, env_id, collection_id, env_spec) ==
    LET read == IF env_id \in DOMAIN files
                THEN read_model_spec("VivaEnvSpec", ENV_SPEC_FILE_EXT, files[env_id])
                ELSE Ok(VivaEnvSpec(<< >>, << >>))
    IN IF read.ok
       THEN Ok(VivaEnv_create(collection_id, env_spec, read.value, "Unknown"))
       ELSE Err

add_registered_env_overwrite(envs, files, env_id, collection_id, env_spec, allow_duplicate) ==
    IF env_id \in DOMAIN envs /\ ~allow_duplicate
    THEN [ret |-> "Err", envs |-> envs]
    ELSE LET env_instance == create_env_instance(files, env_id, collection_id, env_spec)
         IN IF env_instance.ok
            THEN [ret |-> IF env_id \in DOMAIN envs THEN "Ok(false)" ELSE "Ok(true)",
                  envs |-> Put(envs, env_id, env_instance.value)]
            ELSE [ret |-> "Err", envs |-> envs]

add_registered_env(envs, files, env_id, collection_id, env_spec, allow_duplicate) ==
    IF env_id \in DOMAIN envs
    THEN IF allow_duplicate
         THEN [ret |-> "Ok(false)", envs |-> envs]
         ELSE [ret |-> "Err", envs |-> envs]
    ELSE LET env_instance == create_env_instance(files, env_id, collection_id, env_spec)
         IN IF env_instance.ok
            THEN [ret |-> "Ok(true)", envs |-> Put(envs, env_id, env_instance.value)]
            ELSE [ret |-> "Err", envs |-> envs]

add_registered_app_overwrite(apps, app_id, app_spec, collection_id, env_id, allow_duplicate) ==
    [ret |-> IF app_id \in DOMAIN apps THEN "Ok(false)" ELSE "Ok(true)",
     apps |-> Put(apps, app_id, VivaApp_create(app_spec, collection_id, env_id))]

add_registered_app(apps, app_id, app_spec, collection_id, env_id, allow_duplicate) ==
    IF app_id \in DOMAIN apps
    THEN IF allow_duplicate
         THEN [ret |-> "Ok(false)", apps |-> apps]
         ELSE [ret |-> "Err", apps |-> apps]
    ELSE [ret |-> "Ok(true)",
          apps |-> Put(apps, app_id, VivaApp_create(app_spec, collection_id, env_id))]

RECURSIVE add_env_collection_loop_strict(_, _, _, _, _, _)
add_env_collection_loop_strict(envs, files, ids, collection_id, collection, reg) ==
    IF ids = << >> THEN [ok |-> TRUE, envs |-> envs, reg |-> reg]
    ELSE LET env_id == Head(ids)
             env_spec == collection_get_env(collection, env_id)
             r == add_registered_env(envs, files, env_id, collection_id,
                                     env_spec.value, FALSE)
         IN IF ~env_spec.ok THEN [ok |-> FALSE, envs |-> envs, reg |-> reg]
            ELSE IF r.ret = "Err"
                 THEN [ok |-> FALSE, envs |-> r.envs, reg |-> Put(reg, env_id, r.ret)]
                 ELSE add_env_collection_loop_strict(r.envs, files, Tail(ids),
                          collection_id, collection, Put(reg, env_id, r.ret))

\* The loop of add_env_collection over collection.get_env_ids(): the registry
\* afterwards, the value returned by add_registered_env per id, and whether
\* the loop ran to its end.
RECURSIVE add_env_collection_loop(_, _, _, _, _, _)
add_env_collection_loop(envs, files, ids, collection_id, collection, reg) ==
    IF ids = << >> THEN [ok |-> TRUE, envs |-> envs, reg |-> reg]
    ELSE LET env_id == Head(ids)
             env_spec == collection_get_env(collection, env_id)
             r == add_registered_env(envs, files, env_id, collection_id,
                                     env_spec.value, TRUE)
         IN IF ~env_spec.ok THEN [ok |-> FALSE, envs |-> envs, reg |-> reg]
            ELSE IF r.ret = "Err"
                 THEN [ok |-> FALSE, envs |-> r.envs, reg |-> Put(reg, env_id, r.ret)]
                 ELSE add_env_collection_loop(r.envs, files, Tail(ids), collection_id,
                                              collection, Put(reg, env_id, r.ret))

RECURSIVE add_app_collection_loop(_, _, _, _, _, _)
add_app_collection_loop(apps, ids, collection_id, collection, placement_strategy, reg) ==
    IF ids = << >> THEN [ok |-> TRUE, apps |-> apps, reg |-> reg]
    ELSE LET app_id == Head(ids)
             app_spec == collection.registered_apps[app_id]
             env_id == get_env_id_for_app(app_id, collection_id, placement_strategy)
             r == add_registered_app(apps, app_id, app_spec, collection_id, env_id, TRUE)
         IN IF r.ret = "Err"
            THEN [ok |-> FALSE, apps |-> r.apps, reg |-> Put(reg, app_id, r.ret)]
            ELSE add_app_collection_loop(r.apps, Tail(ids), collection_id, collection,
                                         placement_strategy, Put(reg, app_id, r.ret))

get_env_ids(envs) == SortedSeq(DOMAIN envs)

get_app_ids(apps) == SortedSeq(DOMAIN apps)

(***************************************************************************)
(* State                                                                   *)
(***************************************************************************)
VARIABLES
    registered_envs,   \* VivaContext.registered_envs: id -> VivaEnv
    registered_apps,   \* VivaContext.registered_apps: id -> VivaApp
    env_collections,   \* VivaContext.env_collections: id -> DefaultEnvCollection
    app_collections,   \* VivaContext.app_collections: id -> DefaultAppCollection
    env_cfg,           \* disk: per base path, envs.json|yaml and envs/<id>.<ext>
    app_cfg,           \* disk: per base path, apps.json|yaml and apps/<id>.<ext>
    env_dirs,          \* disk: ids whose materialization directory exists
    actual_files,      \* disk: id -> document of <env_path>/viva_env.json
    last,              \* the last call: operation, argument, return value
    opCount            \* number of calls made by this process

vars == <<registered_envs, registered_apps, env_collections, app_collections,
          env_cfg, app_cfg, env_dirs, actual_files, last, opCount>>

disk == <<env_cfg, app_cfg, env_dirs, actual_files>>

\* op: the operation; id: its id argument; ret: its return value ("panic"
\* when it aborted the process); invoked / created: the environments for
\* which the Materializer was called / succeeded during the call; oracle:
\* the environments for which a Materializer call made during the call would
\* succeed; reg: the value add_registered_env or add_registered_app returned,
\* per id.
Last(op, id, ret) ==
    [op |-> op, id |-> id, ret |-> ret, invoked |-> {}, created |-> {},
     oracle |-> {}, reg |-> EmptyMap]

\* Input domains of the calls.
ChannelInputs == {<< >>, <<"conda-forge">>}

PkgSpecInputs == {<< >>, <<"numpy">>}

SpecInputs ==
    {VivaEnvSpec(<< >>, << >>),
     VivaEnvSpec(<<"conda-forge">>, << >>),
     VivaEnvSpec(<< >>, <<"numpy">>)}

Some(v) == [some |-> TRUE, value |-> v]

None == [some |-> FALSE]

AppSpecInputs ==
    {VivaAppSpec("python", << >>, VivaEnvSpec(<<"conda-forge">>, <<"numpy">>)),
     VivaAppSpec("ipython", <<"-i">>, VivaEnvSpec(<< >>, <<"pandas">>))}

StrategyInputs == {Strategy("CollectionId", ""), Strategy("Custom", "e1")}

(***************************************************************************)
(* Initial state: a fresh VivaContext over a disk left by the user and by  *)
(* earlier runs.                                                           *)
(***************************************************************************)
EmptyCfg == [collected |-> EmptyMap, single |-> EmptyMap]

\* envs.json holding two environments.
EnvCfgConsolidated ==
    [collected |-> [e \in {"json"} |-> serde_json_to_string(
                        [i \in {"default", "e1"} |->
                            IF i = "default" THEN VivaEnvSpec(<<"conda-forge">>, << >>)
                            ELSE VivaEnvSpec(<< >>, <<"numpy">>)])],
     single |-> EmptyMap]

\* envs.yaml written by hand, and envs/e1.yaml written by set_env.
EnvCfgOverride ==
    [collected |-> [e \in {"yaml"} |->
                        [syntax |-> "yaml",
                         value |-> Serialize([i \in {"e1"} |->
                                                VivaEnvSpec(<<"conda-forge">>, << >>)])]],
     single |-> [f \in {<<"e1", "yaml">>} |->
                    write_model_spec(VivaEnvSpec(<<"conda-forge">>, <<"numpy", "pandas">>))]]

AppCfgSingle ==
    [collected |-> EmptyMap,
     single |-> [f \in {<<"a1", "json">>} |->
                    write_model_spec(VivaAppSpec("python", << >>,
                                        VivaEnvSpec(<<"conda-forge">>, <<"numpy">>)))]]

InitActualFiles ==
    {EmptyMap,
     [i \in {"e1"} |-> serde_json_to_string(VivaEnvSpec(<<"conda-forge">>, <<"numpy">>))]}

Init ==
    /\ registered_envs = EmptyMap
    /\ registered_apps = EmptyMap
    /\ env_collections = EmptyMap
    /\ app_collections = EmptyMap
    /\ env_cfg = [b \in BasePaths |-> IF b = "b1" THEN EnvCfgConsolidated ELSE EnvCfgOverride]
    /\ app_cfg = [b \in BasePaths |-> IF b = "b1" THEN AppCfgSingle ELSE EmptyCfg]
    /\ actual_files \in InitActualFiles
    /\ env_dirs = DOMAIN actual_files
    /\ last = Last("init", "", "Ok")
    /\ opCount = 0

\* Every call is made by a live process, within the bound on calls.
Running == last.ret # "panic" /\ opCount < MaxOps

(***************************************************************************)
(* VivaContext operations                                                  *)
(***************************************************************************)
\* DefaultEnvCollection::create(base) followed by add_env_collection.
AddEnvCollection(collection_id, base) ==
    /\ Running
    /\ \E collection \in load_registered_envs(base, env_cfg[base]) :
         IF ~collection.ok
         THEN /\ last' = Last("create_env_collection", collection_id, "Err")
              /\ UNCHANGED <<registered_envs, env_collections>>
         ELSE LET res == add_env_collection_loop(registered_envs, actual_files,
                             get_env_ids_of(collection.value), collection_id,
                             collection.value, EmptyMap)
              IN /\ registered_envs' = res.envs
                 /\ env_collections' = IF res.ok
                                       THEN Put(env_collections, collection_id, collection.value)
                                       ELSE env_collections
                 /\ last' = [Last("add_env_collection", collection_id,
                                  IF res.ok THEN "Ok" ELSE "Err") EXCEPT !.reg = res.reg]
    /\ opCount' = opCount + 1
    /\ UNCHANGED <<registered_apps, app_collections, disk>>

\* DefaultAppCollection::create(base) followed by add_app_collection.
AddAppCollection(collection_id, base, env_placement) ==
    /\ Running
    /\ \E collection \in load_registered_apps(base, app_cfg[base]) :
         IF ~collection.ok
         THEN /\ last' = Last("create_app_collection", collection_id, "Err")
              /\ UNCHANGED <<registered_apps, app_collections>>
         ELSE LET placement_strategy == IF env_placement.some THEN env_placement.value
                                        ELSE Strategy("Default", "")
                  res == add_app_collection_loop(registered_apps,
                             get_app_ids_of(collection.value), collection_id,
                             collection.value, placement_strategy, EmptyMap)
              IN /\ registered_apps' = res.apps
                 /\ app_collections' = IF res.ok
                                       THEN Put(app_collections, collection_id, collection.value)
                                       ELSE app_collections
                 /\ last' = [Last("add_app_collection", collection_id,
                                  IF res.ok THEN "Ok" ELSE "Err") EXCEPT !.reg = res.reg]
    /\ opCount' = opCount + 1
    /\ UNCHANGED <<registered_envs, env_collections, disk>>

AddEnv(env_id, env, collection_id) ==
    /\ Running
    /\ opCount' = opCount + 1
    /\ LET env_col_name == IF collection_id.some THEN collection_id.value ELSE "default"
           env_spec == IF env.some THEN env.value ELSE VivaEnvSpec_new
       IN IF env_id \in DOMAIN registered_envs
          THEN /\ last' = Last("add_env", env_id, "Err")
               /\ UNCHANGED <<registered_envs, env_collections, env_cfg>>
          ELSE IF env_col_name \notin DOMAIN env_collections
          THEN /\ last' = Last("add_env", env_id, "panic")
               /\ UNCHANGED <<registered_envs, env_collections, env_cfg>>
          ELSE LET env_col == env_collections[env_col_name]
                   base == env_col.base_config_path
                   w == set_env(env_col, env_cfg[base], env_id, env_spec)
                   r == add_registered_env(registered_envs, actual_files, env_id,
                                           env_col_name, env_spec, FALSE)
               IN /\ env_collections' = [env_collections EXCEPT ![env_col_name] = w.coll]
                  /\ env_cfg' = [env_cfg EXCEPT ![base] = w.cfg]
                  /\ registered_envs' = r.envs
                  /\ last' = [Last("add_env", env_id, IF r.ret = "Err" THEN "Err" ELSE "Ok")
                                EXCEPT !.reg = Put(EmptyMap, env_id, r.ret)]
    /\ UNCHANGED <<registered_apps, app_collections, app_cfg, env_dirs, actual_files>>

AddApp_merges(app_id, app_spec, collection_id, placement_strategy) ==
    /\ Running
    /\ opCount' = opCount + 1
    /\ LET env_id == get_env_id_for_app(app_id, collection_id, placement_strategy)
       IN IF collection_id \notin DOMAIN app_collections
          THEN /\ last' = Last("add_app", app_id, "panic")
               /\ UNCHANGED <<registered_envs, registered_apps, app_collections, app_cfg>>
          ELSE LET app_col == app_collections[collection_id]
                   base == app_col.base_config_path
                   w == set_app(app_col, app_cfg[base], app_id, app_spec)
                   r == add_registered_app(registered_apps, app_id, app_spec,
                                           collection_id, env_id, FALSE)
               IN /\ app_collections' = [app_collections EXCEPT ![collection_id] = w.coll]
                  /\ app_cfg' = [app_cfg EXCEPT ![base] = w.cfg]
                  /\ registered_apps' = r.apps
                  /\ registered_envs' =
                        IF env_id \in DOMAIN registered_envs
                        THEN [registered_envs EXCEPT
                                 ![env_id] = merge_spec(@, app_spec.env_spec)]
                        ELSE registered_envs
                  /\ last' = [Last("add_app", app_id, IF r.ret = "Err" THEN "Err" ELSE "Ok")
                                EXCEPT !.reg = Put(EmptyMap, app_id, r.ret)]
    /\ UNCHANGED <<env_collections, env_cfg, env_dirs, actual_files>>

AddApp(app_id, app_spec, collection_id, placement_strategy) ==
    /\ Running
    /\ opCount' = opCount + 1
    /\ LET env_id == get_env_id_for_app(app_id, collection_id, placement_strategy)
       IN IF collection_id \notin DOMAIN app_collections
          THEN /\ last' = Last("add_app", app_id, "panic")
               /\ UNCHANGED <<registered_apps, app_collections, app_cfg>>
          ELSE LET app_col == app_collections[collection_id]
                   base == app_col.base_config_path
                   w == set_app(app_col, app_cfg[base], app_id, app_spec)
                   r == add_registered_app(registered_apps, app_id, app_spec,
                                           collection_id, env_id, FALSE)
               IN /\ app_collections' = [app_collections EXCEPT ![collection_id] = w.coll]
                  /\ app_cfg' = [app_cfg EXCEPT ![base] = w.cfg]
                  /\ registered_apps' = r.apps
                  /\ last' = [Last("add_app", app_id, IF r.ret = "Err" THEN "Err" ELSE "Ok")
                                EXCEPT !.reg = Put(EmptyMap, app_id, r.ret)]
    /\ UNCHANGED <<registered_envs, env_collections, env_cfg, env_dirs, actual_files>>

MergeEnvSpecs(target_env_id, spec_to_merge, update_env_spec, add_if_not_exist) ==
    /\ Running
    /\ opCount' = opCount + 1
    /\ UNCHANGED <<registered_apps, app_collections, app_cfg, env_dirs, actual_files>>
    /\ IF target_env_id \notin DOMAIN registered_envs /\ ~add_if_not_exist
       THEN /\ last' = Last("merge_env_specs", target_env_id, "Err")
            /\ UNCHANGED <<registered_envs, env_collections, env_cfg>>
       ELSE LET r == IF target_env_id \notin DOMAIN registered_envs
                     THEN add_registered_env(registered_envs, actual_files, target_env_id,
                                             "default", spec_to_merge, FALSE)
                     ELSE [ret |-> "registered", envs |-> registered_envs]
            IN IF r.ret = "Err"
               THEN /\ last' = Last("merge_env_specs", target_env_id, "panic")
                    /\ UNCHANGED <<registered_envs, env_collections, env_cfg>>
               ELSE LET env == merge_spec(r.envs[target_env_id], spec_to_merge)
                        envs2 == [r.envs EXCEPT ![target_env_id] = env]
                        col_id == env.collection_id
                    IN /\ registered_envs' = envs2
                       /\ IF ~update_env_spec
                          THEN /\ last' = Last("merge_env_specs", target_env_id, "Ok")
                               /\ UNCHANGED <<env_collections, env_cfg>>
                          ELSE IF col_id \notin DOMAIN env_collections
                          THEN /\ last' = Last("merge_env_specs", target_env_id, "panic")
                               /\ UNCHANGED <<env_collections, env_cfg>>
                          ELSE LET env_col == env_collections[col_id]
                                   base == env_col.base_config_path
                                   w == set_env(env_col, env_cfg[base], target_env_id, env.spec)
                               IN /\ env_collections' =
                                        [env_collections EXCEPT ![col_id] = w.coll]
                                  /\ env_cfg' = [env_cfg EXCEPT ![base] = w.cfg]
                                  /\ last' = Last("merge_env_specs", target_env_id, "Ok")

RECURSIVE merge_all_apps_loop_channels_only(_, _, _)
merge_all_apps_loop_channels_only(envs, apps, app_ids) ==
    IF app_ids = << >> THEN [ok |-> TRUE, envs |-> envs]
    ELSE LET app == apps[Head(app_ids)]
             env_id == app.env_id
         IN IF env_id \in DOMAIN envs
            THEN merge_all_apps_loop_channels_only(
                    [envs EXCEPT ![env_id] = add_channels(@, app.spec.env_spec.channels)],
                    apps, Tail(app_ids))
            ELSE [ok |-> FALSE, envs |-> envs]

RECURSIVE merge_all_apps_loop_best_effort(_, _, _)
merge_all_apps_loop_best_effort(envs, apps, app_ids) ==
    IF app_ids = << >> THEN [ok |-> TRUE, envs |-> envs]
    ELSE LET app == apps[Head(app_ids)]
             env_id == app.env_id
         IN IF env_id \in DOMAIN envs
            THEN merge_all_apps_loop_best_effort(
                    [envs EXCEPT ![env_id] = merge_spec(@, app.spec.env_spec)],
                    apps, Tail(app_ids))
            ELSE [ok |-> FALSE,
                  envs |-> merge_all_apps_loop_best_effort(envs, apps, Tail(app_ids)).envs]

\* The loop of merge_all_apps over get_app_ids(): the registry afterwards and
\* whether every merge_app_into_env succeeded.
RECURSIVE merge_all_apps_loop(_, _, _)
merge_all_apps_loop(envs, apps, app_ids) ==
    IF app_ids = << >> THEN [ok |-> TRUE, envs |-> envs]
    ELSE LET app == apps[Head(app_ids)]
             env_id == app.env_id
         IN IF env_id \notin DOMAIN envs
            THEN [ok |-> FALSE, envs |-> envs]
            ELSE merge_all_apps_loop(
                    [envs EXCEPT ![env_id] = merge_spec(@, app.spec.env_spec)],
                    apps, Tail(app_ids))

MergeAllApps ==
    /\ Running
    /\ opCount' = opCount + 1
    /\ LET res == merge_all_apps_loop(registered_envs, registered_apps,
                                      get_app_ids(registered_apps))
       IN /\ registered_envs' = res.envs
          /\ last' = Last("merge_all_apps", "", IF res.ok THEN "Ok" ELSE "Err")
    /\ UNCHANGED <<registered_apps, env_collections, app_collections, disk>>

\* The iteration orders of a HashSet<String>.
Orders(S) ==
    {o \in [1..Cardinality(S) -> S] : \A i, j \in 1..Cardinality(S) : o[i] = o[j] => i = j}

\* The loop of sync_envs.  create_ok[id] is the outcome of the Materializer
\* call for id, should one be made.  files: the actual-spec files.
RECURSIVE sync_envs_loop(_, _, _, _, _, _)
sync_envs_loop(envs, files, env_ids_to_sync, create_ok, invoked, created) ==
    IF env_ids_to_sync = << >>
    THEN [ok |-> TRUE, envs |-> envs, files |-> files,
          invoked |-> invoked, created |-> created]
    ELSE LET env_id == Head(env_ids_to_sync)
             env == envs[env_id]
             checked == check_and_update_sync_status(env)
             skip == \/ env.sync_status = "Synced"
                     \/ env.sync_status = "Unknown" /\ checked.sync_status = "Synced"
             e1 == IF env.sync_status = "Unknown" THEN checked ELSE env
             r == sync(e1, create_ok[env_id])
             inv2 == IF r.invoked THEN invoked \cup {env_id} ELSE invoked
             files2 == IF r.wrote
                       THEN Put(files, env_id, serde_json_to_string(e1.spec))
                       ELSE files
         IN IF skip
            THEN sync_envs_loop([envs EXCEPT ![env_id] = e1], files,
                                Tail(env_ids_to_sync), create_ok, invoked, created)
            ELSE IF r.ret = "Err"
                 THEN [ok |-> FALSE, envs |-> [envs EXCEPT ![env_id] = r.env],
                       files |-> files2, invoked |-> inv2, created |-> created]
                 ELSE sync_envs_loop([envs EXCEPT ![env_id] = r.env], files2,
                                     Tail(env_ids_to_sync), create_ok, inv2,
                                     IF create_ok[env_id] /\ r.invoked
                                     THEN created \cup {env_id} ELSE created)

SyncEnvs_syncs_registered(env_ids, create_ok) ==
    /\ Running
    /\ opCount' = opCount + 1
    /\ UNCHANGED <<registered_apps, env_collections, app_collections, env_cfg, app_cfg>>
    /\ \E order \in Orders(env_ids \cap DOMAIN registered_envs) :
          LET missing == env_ids \ DOMAIN registered_envs
              env_ids_to_sync == IF env_ids = {}
                                 THEN get_env_ids(registered_envs) ELSE order
              res == sync_envs_loop(registered_envs, actual_files, env_ids_to_sync,
                                    create_ok, {}, {})
          IN /\ registered_envs' = res.envs
             /\ actual_files' = res.files
             /\ env_dirs' = env_dirs \cup res.created
             /\ last' = [Last("sync_envs", "",
                              IF res.ok /\ missing = {} THEN "Ok" ELSE "Err")
                           EXCEPT !.invoked = res.invoked, !.created = res.created,
                                  !.oracle = {i \in EnvIds : create_ok[i]}]

SyncEnvs(env_ids, create_ok) ==
    /\ Running
    /\ opCount' = opCount + 1
    /\ UNCHANGED <<registered_apps, env_collections, app_collections, env_cfg, app_cfg>>
    /\ IF \E env_name \in env_ids : ~Contains(get_env_ids(registered_envs), env_name)
       THEN /\ last' = Last("sync_envs", "", "Err")
            /\ UNCHANGED <<registered_envs, env_dirs, actual_files>>
       ELSE \E order \in Orders(env_ids) :
              LET env_ids_to_sync == IF Len(order) = 0
                                     THEN get_env_ids(registered_envs) ELSE order
                  res == sync_envs_loop(registered_envs, actual_files, env_ids_to_sync,
                                        create_ok, {}, {})
              IN /\ registered_envs' = res.envs
                 /\ actual_files' = res.files
                 /\ env_dirs' = env_dirs \cup res.created
                 /\ last' = [Last("sync_envs", "", IF res.ok THEN "Ok" ELSE "Err")
                               EXCEPT !.invoked = res.invoked, !.created = res.created,
                                      !.oracle = {i \in EnvIds : create_ok[i]}]

\* get_env_mut(env_id)?.sync()
EnvSync(env_id, create_ok) ==
    /\ Running
    /\ env_id \in DOMAIN registered_envs
    /\ opCount' = opCount + 1
    /\ LET r == sync(registered_envs[env_id], create_ok)
       IN /\ registered_envs' = [registered_envs EXCEPT ![env_id] = r.env]
          /\ actual_files' = IF r.wrote
                             THEN Put(actual_files, env_id,
                                      serde_json_to_string(registered_envs[env_id].spec))
                             ELSE actual_files
          /\ env_dirs' = IF r.invoked /\ create_ok THEN env_dirs \cup {env_id} ELSE env_dirs
          /\ last' = [Last("sync", env_id, r.ret)
                        EXCEPT !.invoked = IF r.invoked THEN {env_id} ELSE {},
                               !.created = IF r.invoked /\ create_ok THEN {env_id} ELSE {},
                               !.oracle = IF create_ok THEN {env_id} ELSE {}]
    /\ UNCHANGED <<registered_apps, env_collections, app_collections, env_cfg, app_cfg>>

CheckEnvsSyncStatus ==
    /\ Running
    /\ opCount' = opCount + 1
    /\ registered_envs' =
          [env_id \in DOMAIN registered_envs |->
              IF registered_envs[env_id].sync_status = "Unknown"
              THEN check_and_update_sync_status(registered_envs[env_id])
              ELSE registered_envs[env_id]]
    /\ last' = Last("check_envs_sync_status", "", "Ok")
    /\ UNCHANGED <<registered_apps, env_collections, app_collections, disk>>

RemoveEnv_ignores_missing(env_id) ==
    /\ Running
    /\ opCount' = opCount + 1
    /\ UNCHANGED <<registered_apps, app_collections, app_cfg>>
    /\ IF env_id \notin DOMAIN registered_envs
       THEN /\ last' = Last("remove_env", env_id, "Ok")
            /\ UNCHANGED <<registered_envs, env_collections, env_cfg, env_dirs, actual_files>>
       ELSE LET env_col_name == registered_envs[env_id].collection_id
            IN IF env_col_name \notin DOMAIN env_collections
               THEN /\ last' = Last("remove_env", env_id, "panic")
                    /\ UNCHANGED <<registered_envs, env_collections, env_cfg,
                                   env_dirs, actual_files>>
               ELSE LET env_col == env_collections[env_col_name]
                        base == env_col.base_config_path
                        d == delete_env(env_col, env_cfg[base], env_id)
                    IN /\ env_collections' = [env_collections EXCEPT ![env_col_name] = d.coll]
                       /\ env_cfg' = [env_cfg EXCEPT ![base] = d.cfg]
                       /\ registered_envs' = Remove(registered_envs, env_id)
                       /\ env_dirs' = env_dirs \ {env_id}
                       /\ actual_files' = Remove(actual_files, env_id)
                       /\ last' = Last("remove_env", env_id, "Ok")

RemoveEnv(env_id) ==
    /\ Running
    /\ opCount' = opCount + 1
    /\ UNCHANGED <<registered_apps, app_collections, app_cfg>>
    /\ IF env_id \notin DOMAIN registered_envs
       THEN /\ last' = Last("remove_env", env_id, "Err")
            /\ UNCHANGED <<registered_envs, env_collections, env_cfg, env_dirs, actual_files>>
       ELSE LET env_col_name == registered_envs[env_id].collection_id
            IN IF env_col_name \notin DOMAIN env_collections
               THEN /\ last' = Last("remove_env", env_id, "panic")
                    /\ UNCHANGED <<registered_envs, env_collections, env_cfg,
                                   env_dirs, actual_files>>
               ELSE LET env_col == env_collections[env_col_name]
                        base == env_col.base_config_path
                        d == delete_env(env_col, env_cfg[base], env_id)
                    IN /\ env_collections' = [env_collections EXCEPT ![env_col_name] = d.coll]
                       /\ env_cfg' = [env_cfg EXCEPT ![base] = d.cfg]
                       /\ registered_envs' = Remove(registered_envs, env_id)
                       /\ env_dirs' = env_dirs \ {env_id}
                       /\ actual_files' = Remove(actual_files, env_id)
                       /\ last' = Last("remove_env", env_id, "Ok")

GetEnv(env_name) ==
    /\ Running
    /\ opCount' = opCount + 1
    /\ last' = Last("get_env", env_name,
                    IF env_name \in DOMAIN registered_envs THEN "Ok" ELSE "Err")
    /\ UNCHANGED <<registered_envs, registered_apps, env_collections, app_collections, disk>>

(***************************************************************************)
(* VivaEnv methods called on get_env_mut(env_id)                           *)
(***************************************************************************)
EnvMethod(op, env_id, env) ==
    /\ registered_envs' = [registered_envs EXCEPT ![env_id] = env]
    /\ last' = Last(op, env_id, "Ok")
    /\ opCount' = opCount + 1
    /\ UNCHANGED <<registered_apps, env_collections, app_collections, disk>>

EnvAddChannels(env_id, channels) ==
    /\ Running
    /\ env_id \in DOMAIN registered_envs
    /\ EnvMethod("add_channels", env_id, add_channels(registered_envs[env_id], channels))

EnvAddPkgSpecs(env_id, pkg_specs) ==
    /\ Running
    /\ env_id \in DOMAIN registered_envs
    /\ EnvMethod("add_pkg_specs", env_id, add_pkg_specs(registered_envs[env_id], pkg_specs))

EnvMergeSpec(env_id, spec) ==
    /\ Running
    /\ env_id \in DOMAIN registered_envs
    /\ EnvMethod("merge_spec", env_id, merge_spec(registered_envs[env_id], spec))

EnvRemoveChannels(env_id, channels) ==
    /\ Running
    /\ env_id \in DOMAIN registered_envs
    /\ EnvMethod("remove_channels", env_id, remove_channels(registered_envs[env_id], channels))

EnvCheckAndUpdateSyncStatus(env_id) ==
    /\ Running
    /\ env_id \in DOMAIN registered_envs
    /\ EnvMethod("check_and_update_sync_status", env_id,
                 check_and_update_sync_status(registered_envs[env_id]))

Next ==
    \/ \E c \in CollectionIds, b \in BasePaths : AddEnvCollection(c, b)
    \/ \E c \in CollectionIds, b \in BasePaths,
          p \in {None, Some(Strategy("AppId", ""))} :
            AddAppCollection(c, b, p)
    \/ \E i \in EnvIds, e \in {None} \cup {Some(s) : s \in SpecInputs},
          c \in {None, Some("other")} : AddEnv(i, e, c)
    \/ \E a \in AppIds, s \in AppSpecInputs, c \in CollectionIds, p \in StrategyInputs :
            AddApp(a, s, c, p)
    \/ \E i \in EnvIds, s \in SpecInputs, u \in BOOLEAN, a \in BOOLEAN :
            MergeEnvSpecs(i, s, u, a)
    \/ MergeAllApps
    \/ \E ids \in SUBSET EnvIds, ok \in [EnvIds -> BOOLEAN] : SyncEnvs(ids, ok)
    \/ \E i \in EnvIds, ok \in BOOLEAN : EnvSync(i, ok)
    \/ CheckEnvsSyncStatus
    \/ \E i \in EnvIds : RemoveEnv(i)
    \/ \E i \in EnvIds : GetEnv(i)
    \/ \E i \in EnvIds, c \in ChannelInputs : EnvAddChannels(i, c)
    \/ \E i \in EnvIds, p \in PkgSpecInputs : EnvAddPkgSpecs(i, p)
    \/ \E i \in EnvIds, s \in SpecInputs : EnvMergeSpec(i, s)
    \/ \E i \in EnvIds, c \in ChannelInputs : EnvRemoveChannels(i, c)
    \/ \E i \in EnvIds : EnvCheckAndUpdateSyncStatus(i)

Spec == Init /\ [][Next]_vars

(***************************************************************************)
(* The spec stores on their own: a DefaultEnvCollection and a              *)
(* DefaultAppCollection created over configuration directories of every    *)
(* layout, and the calls of the EnvironmentCollection and AppCollection    *)
(* traits on them.                                                         *)
(***************************************************************************)
\* The last call on a collection: coll is the id under which the context
\* holds the collection, arg the spec argument, value the value returned.
StoreLast(coll, op, id, ret, arg, value) ==
    [op |-> op, id |-> id, ret |-> ret, invoked |-> {}, created |-> {},
     oracle |-> {}, reg |-> EmptyMap, coll |-> coll, arg |-> arg, value |-> value]

SpecA == VivaEnvSpec(<<"conda-forge">>, << >>)

SpecB == VivaEnvSpec(<< >>, <<"numpy">>)

SpecC == VivaEnvSpec(<<"conda-forge">>, <<"numpy", "pandas">>)

EnvsDocument == [i \in {"default", "e1"} |-> IF i = "default" THEN SpecA ELSE SpecB]

\* Text in the given syntax denoting the value v.
Text(syntax, v) == [syntax |-> syntax, value |-> Serialize(v)]

\* Text that is neither JSON nor YAML.
Garbage == [syntax |-> "none", value |-> JObject(<< >>)]

\* A consolidated document whose entry for e1 lacks the pkg_specs field.
EnvsDocumentMissingField ==
    [syntax |-> "yaml",
     value |-> JObject(<< <<"default", Serialize(SpecA)>>,
                          <<"e1", JObject(<< <<"channels", Serialize_Vec(<< >>)>> >>)>> >>)]

File(name, doc) == [f \in {name} |-> doc]

\* envs.json / envs.yaml as found under a base path.
CollectedLayouts ==
    {EmptyMap,
     File("json", Text("json", EnvsDocument)),
     File("yaml", Text("yaml", EnvsDocument)),
     File("json", Text("yaml", EnvsDocument)),
     File("json", Garbage),
     File("yaml", EnvsDocumentMissingField),
     [e \in {"json", "yaml"} |-> IF e = "json" THEN Text("json", EnvsDocument) ELSE Garbage]}

\* The files under envs/ as found under a base path.
SingleLayouts ==
    {EmptyMap,
     File(<<"e1", "yaml">>, Text("json", SpecC)),
     [f \in {<<"e1", "json">>, <<"default", "yml">>} |->
         IF f[1] = "e1" THEN Text("json", SpecC) ELSE Text("yaml", SpecB)],
     File(<<"e1", "">>, Text("yaml", SpecC)),
     File(<<"e1", "json">>, Text("yaml", SpecC)),
     [f \in {<<"default", "yaml">>, <<"e1", "yaml">>} |->
         IF f[1] = "default" THEN Text("json", SpecA) ELSE Garbage],
     File(<<"e1", "txt">>, Text("json", SpecC)),
     [f \in {<<"e1", "json">>, <<"e1", "yaml">>} |->
         IF f[2] = "json" THEN Text("json", SpecC) ELSE Text("json", SpecA)],
     File(<<"e1", "yaml">>, Text("json_only", SpecC))}

AppX == VivaAppSpec("python", << >>, SpecA)

AppY == VivaAppSpec("ipython", <<"-i">>, SpecB)

\* apps.json holding a1 and a2, and apps/a1.json overriding a1.
AppCfgOverride ==
    [collected |-> File("json", Text("json", [i \in {"a1", "a2"} |-> AppX])),
     single |-> File(<<"a1", "json">>, Text("json", AppY))]

StoreInit ==
    /\ registered_envs = EmptyMap
    /\ registered_apps = EmptyMap
    /\ env_collections = EmptyMap
    /\ app_collections = EmptyMap
    /\ \E collected \in CollectedLayouts, single \in SingleLayouts :
          env_cfg = [b \in BasePaths |->
                        IF b = "b1" THEN [collected |-> collected, single |-> single]
                        ELSE EmptyCfg]
    /\ app_cfg = [b \in BasePaths |-> IF b = "b1" THEN AppCfgOverride ELSE EmptyCfg]
    /\ actual_files = EmptyMap
    /\ env_dirs = {}
    /\ last = Last("init", "", "Ok")
    /\ opCount = 0

CollectionSetEnv(collection_id, env_id, env_spec) ==
    /\ Running
    /\ collection_id \in DOMAIN env_collections
    /\ opCount' = opCount + 1
    /\ LET env_col == env_collections[collection_id]
           base == env_col.base_config_path
           w == set_env(env_col, env_cfg[base], env_id, env_spec)
       IN /\ env_collections' = [env_collections EXCEPT ![collection_id] = w.coll]
          /\ env_cfg' = [env_cfg EXCEPT ![base] = w.cfg]
    /\ last' = StoreLast(collection_id, "set_env", env_id, "Ok", env_spec, "")
    /\ UNCHANGED <<registered_envs, registered_apps, app_collections, app_cfg,
                   env_dirs, actual_files>>

CollectionDeleteEnv(collection_id, env_id) ==
    /\ Running
    /\ collection_id \in DOMAIN env_collections
    /\ opCount' = opCount + 1
    /\ LET env_col == env_collections[collection_id]
           base == env_col.base_config_path
           d == delete_env(env_col, env_cfg[base], env_id)
       IN /\ env_collections' = [env_collections EXCEPT ![collection_id] = d.coll]
          /\ env_cfg' = [env_cfg EXCEPT ![base] = d.cfg]
    /\ last' = StoreLast(collection_id, "delete_env", env_id, "Ok", "", "")
    /\ UNCHANGED <<registered_envs, registered_apps, app_collections, app_cfg,
                   env_dirs, actual_files>>

CollectionGetEnv(collection_id, env_id) ==
    /\ Running
    /\ collection_id \in DOMAIN env_collections
    /\ opCount' = opCount + 1
    /\ LET r == collection_get_env(env_collections[collection_id], env_id)
       IN last' = IF r.ok THEN StoreLast(collection_id, "collection_get_env", env_id, "Ok", "", r.value)
                  ELSE StoreLast(collection_id, "collection_get_env", env_id, "Err", "", "")
    /\ UNCHANGED <<registered_envs, registered_apps, env_collections, app_collections, disk>>

CollectionGetEnvIds(collection_id) ==
    /\ Running
    /\ collection_id \in DOMAIN env_collections
    /\ opCount' = opCount + 1
    /\ last' = StoreLast(collection_id, "collection_get_env_ids", "", "Ok", "",
                         get_env_ids_of(env_collections[collection_id]))
    /\ UNCHANGED <<registered_envs, registered_apps, env_collections, app_collections, disk>>

CollectionGetApp(collection_id, app_id) ==
    /\ Running
    /\ collection_id \in DOMAIN app_collections
    /\ opCount' = opCount + 1
    /\ LET r == collection_get_app(app_collections[collection_id], app_id)
       IN last' = IF r.ok THEN StoreLast(collection_id, "collection_get_app", app_id, "Ok", "", r.value)
                  ELSE StoreLast(collection_id, "collection_get_app", app_id, "Err", "", "")
    /\ UNCHANGED <<registered_envs, registered_apps, env_collections, app_collections, disk>>

CollectionSetApp(collection_id, app_id, app_spec) ==
    /\ Running
    /\ collection_id \in DOMAIN app_collections
    /\ opCount' = opCount + 1
    /\ LET app_col == app_collections[collection_id]
           base == app_col.base_config_path
           w == set_app(app_col, app_cfg[base], app_id, app_spec)
       IN /\ app_collections' = [app_collections EXCEPT ![collection_id] = w.coll]
          /\ app_cfg' = [app_cfg EXCEPT ![base] = w.cfg]
    /\ last' = StoreLast(collection_id, "set_app", app_id, "Ok", app_spec, "")
    /\ UNCHANGED <<registered_envs, registered_apps, env_collections, env_cfg,
                   env_dirs, actual_files>>

\* DefaultAppCollection::delete_app is todo!(): the call panics.
CollectionDeleteApp(collection_id, app_id) ==
    /\ Running
    /\ collection_id \in DOMAIN app_collections
    /\ opCount' = opCount + 1
    /\ last' = StoreLast(collection_id, "delete_app", app_id, "panic", "", "")
    /\ UNCHANGED <<registered_envs, registered_apps, env_collections, app_collections, disk>>

StoreNext ==
    \/ AddEnvCollection("default", "b1")
    \/ AddAppCollection("default", "b1", None)
    \/ \E i \in EnvIds, s \in {SpecA, SpecC} : CollectionSetEnv("default", i, s)
    \/ \E i \in EnvIds : CollectionDeleteEnv("default", i)
    \/ \E i \in EnvIds : CollectionGetEnv("default", i)
    \/ CollectionGetEnvIds("default")
    \/ \E a \in AppIds : CollectionGetApp("default", a)
    \/ CollectionSetApp("default", "a2", AppY)
    \/ \E a \in AppIds : CollectionDeleteApp("default", a)

StoreSpec == StoreInit /\ [][StoreNext]_vars

(***************************************************************************)
(* The codec on its own: spec files of every extension and content are     *)
(* read, written and parsed.  The files of type VivaEnvSpec are those of    *)
(* env_cfg["b1"].single, the files of type VivaAppSpec those of             *)
(* app_cfg["b1"].single.                                                    *)
(***************************************************************************)
SpecTypes == {"VivaEnvSpec", "VivaAppSpec"}

Syntaxes == {"json", "json_only", "yaml", "none"}

Extensions == {"json", "yaml", "yml", "", "txt"}

\* A spec of type T, and a document of type T that lacks a field.
SampleSpec(T) == IF T = "VivaEnvSpec" THEN SpecC ELSE AppY

MissingField(T) ==
    [syntax |-> "json",
     value |-> IF T = "VivaEnvSpec"
               THEN JObject(<< <<"channels", Serialize_Vec(<<"conda-forge">>)>> >>)
               ELSE JObject(<< <<"executable", JString("python")>>,
                               <<"env_spec", Serialize(SpecA)>> >>)]

\* Hand-written text of each syntax.
HandWritten(T, syntax) == IF syntax = "none" THEN Garbage ELSE Text(syntax, SampleSpec(T))

\* The files found: for every syntax and every extension, a file named after
\* its syntax, and a JSON file that lacks a field.
CodecFiles(T) ==
    [f \in (Syntaxes \X Extensions) \cup {<<"short", "json">>} |->
        IF f[1] = "short" THEN MissingField(T) ELSE HandWritten(T, f[1])]

SpecValues(T) ==
    IF T = "VivaEnvSpec" THEN {VivaEnvSpec_new, SpecA, SpecC} ELSE {AppX, AppY}

\* The strings given to parse_model_spec and to parse_models_spec.
SpecTexts(T) == {HandWritten(T, syntax) : syntax \in Syntaxes} \cup {MissingField(T)}

SpecsTexts ==
    {Text(syntax, EnvsDocument) : syntax \in Syntaxes \ {"none"}}
        \cup {Garbage, EnvsDocumentMissingField}

CodecInit ==
    /\ registered_envs = EmptyMap
    /\ registered_apps = EmptyMap
    /\ env_collections = EmptyMap
    /\ app_collections = EmptyMap
    /\ env_cfg = [b \in BasePaths |->
                    IF b = "b1" THEN [collected |-> EmptyMap, single |-> CodecFiles("VivaEnvSpec")]
                    ELSE EmptyCfg]
    /\ app_cfg = [b \in BasePaths |->
                    IF b = "b1" THEN [collected |-> EmptyMap, single |-> CodecFiles("VivaAppSpec")]
                    ELSE EmptyCfg]
    /\ actual_files = EmptyMap
    /\ env_dirs = {}
    /\ last = Last("init", "", "Ok")
    /\ opCount = 0

FilesOf(T) == IF T = "VivaEnvSpec" THEN env_cfg["b1"].single ELSE app_cfg["b1"].single

\* The outcome of a call as kept in last: T its type parameter, id the file,
\* arg the argument, value the value of an Ok result.
CodecLast(T, op, file, arg, result) ==
    StoreLast(T, op, file, IF result.ok THEN "Ok" ELSE "Err", arg,
              IF result.ok THEN result.value ELSE "")

ReadModelSpec(T, model_spec_file) ==
    /\ Running
    /\ model_spec_file \in DOMAIN FilesOf(T)
    /\ opCount' = opCount + 1
    /\ last' = CodecLast(T, "read_model_spec", model_spec_file, "",
                         read_model_spec(T, model_spec_file[2], FilesOf(T)[model_spec_file]))
    /\ UNCHANGED <<registered_envs, registered_apps, env_collections, app_collections, disk>>

WriteModelSpec(T, model_spec_file, model_spec) ==
    /\ Running
    /\ opCount' = opCount + 1
    /\ IF T = "VivaEnvSpec"
       THEN /\ env_cfg' = [env_cfg EXCEPT !["b1"].single =
                              Put(@, model_spec_file, write_model_spec(model_spec))]
            /\ UNCHANGED app_cfg
       ELSE /\ app_cfg' = [app_cfg EXCEPT !["b1"].single =
                              Put(@, model_spec_file, write_model_spec(model_spec))]
            /\ UNCHANGED env_cfg
    /\ last' = CodecLast(T, "write_model_spec", model_spec_file, model_spec, Ok(""))
    /\ UNCHANGED <<registered_envs, registered_apps, env_collections, app_collections,
                   env_dirs, actual_files>>

ParseModelSpec(T, env_spec_data) ==
    /\ Running
    /\ opCount' = opCount + 1
    /\ last' = CodecLast(T, "parse_model_spec", <<>>, env_spec_data,
                         parse_model_spec(T, env_spec_data))
    /\ UNCHANGED <<registered_envs, registered_apps, env_collections, app_collections, disk>>

ParseModelsSpec(T, spec_string) ==
    /\ Running
    /\ opCount' = opCount + 1
    /\ last' = CodecLast(T, "parse_models_spec", <<>>, spec_string,
                         parse_models_spec(T, spec_string))
    /\ UNCHANGED <<registered_envs, registered_apps, env_collections, app_collections, disk>>

CodecNext ==
    \/ \E T \in SpecTypes, f \in (Syntaxes \cup {"short", "out"}) \X Extensions :
          ReadModelSpec(T, f)
    \/ \E T \in SpecTypes, e \in {"json", "yaml", "yml"} :
          \E v \in SpecValues(T) : WriteModelSpec(T, <<"out", e>>, v)
    \/ \E T \in SpecTypes : \E d \in SpecTexts(T) : ParseModelSpec(T, d)
    \/ \E d \in SpecsTexts : ParseModelsSpec("VivaEnvSpec", d)

CodecSpec == CodecInit /\ [][CodecNext]_vars

(***************************************************************************)
(* The merge engine on its own: one environment e1, just registered with    *)
(* any small desired spec (with repeated, reordered and extra entries, as   *)
(* a hand-written envs file or add_env can supply them), merged with any    *)
(* small spec and tested against any small desired spec.                    *)
(***************************************************************************)
EngineChannels ==
    {<< >>, <<"conda-forge", "conda-forge">>,
     <<"conda-forge", "bioconda">>, <<"bioconda", "conda-forge">>}

EnginePkgSpecs == {<< >>, <<"numpy", "numpy">>, <<"pandas", "numpy">>}

EngineSpecs == {VivaEnvSpec(c, p) : c \in EngineChannels, p \in EnginePkgSpecs}

\* The last call on the engine: arg is the spec argument, before the desired
\* spec of the environment when the call was made, value the value returned,
\* prev the operation, argument and value of the call made before it.
EngineLast(op, id, arg, before, value, prev) ==
    [op |-> op, id |-> id, ret |-> "Ok", invoked |-> {}, created |-> {},
     oracle |-> {}, reg |-> EmptyMap, arg |-> arg, before |-> before, value |-> value,
     prev |-> [op |-> prev.op, arg |-> prev.arg, value |-> prev.value]]

EngineInit ==
    /\ actual_files \in InitActualFiles
    /\ \E spec \in EngineSpecs :
          registered_envs = add_registered_env(EmptyMap, actual_files, "e1", "default",
                                               spec, FALSE).envs
    /\ registered_apps = EmptyMap
    /\ env_collections = EmptyMap
    /\ app_collections = EmptyMap
    /\ env_cfg = [b \in BasePaths |-> EmptyCfg]
    /\ app_cfg = [b \in BasePaths |-> EmptyCfg]
    /\ env_dirs = DOMAIN actual_files
    /\ last = EngineLast("init", "", VivaEnvSpec_new, VivaEnvSpec_new, "",
                         [op |-> "", arg |-> VivaEnvSpec_new, value |-> ""])
    /\ opCount = 0

\* get_env_mut(env_id)?.merge_spec(spec)
MergeSpec(env_id, spec) ==
    /\ Running
    /\ env_id \in DOMAIN registered_envs
    /\ opCount' = opCount + 1
    /\ registered_envs' = [registered_envs EXCEPT ![env_id] = merge_spec(@, spec)]
    /\ last' = EngineLast("merge_spec", env_id, spec, registered_envs[env_id].spec, "", last)
    /\ UNCHANGED <<registered_apps, env_collections, app_collections, disk>>

\* desired.is_satisfied_by(&get_env(env_id)?.spec)
IsSatisfiedBy(desired, env_id) ==
    /\ Running
    /\ env_id \in DOMAIN registered_envs
    /\ opCount' = opCount + 1
    /\ last' = EngineLast("is_satisfied_by", env_id, desired, registered_envs[env_id].spec,
                          is_satisfied_by(desired, registered_envs[env_id].spec), last)
    /\ UNCHANGED <<registered_envs, registered_apps, env_collections, app_collections, disk>>

EngineNext ==
    \/ \E spec \in EngineSpecs : MergeSpec("e1", spec)
    \/ \E desired \in EngineSpecs : IsSatisfiedBy(desired, "e1")

EngineSpec == EngineInit /\ [][EngineNext]_vars

(***************************************************************************)
(* The app registry on its own: a context over a configuration directory    *)
(* that declares two apps and two environments, one of them named after an  *)
(* app (the layout the AppId placement is made for); apps are registered    *)
(* under every placement, folded into their environments and synced, and    *)
(* the placement resolver is called on its own.                             *)
(***************************************************************************)
AppsEnvIds == EnvIds \cup {"a2"}

\* envs.json and apps.json of the base path b1.
AppsEnvCfg ==
    [collected |-> File("json", Text("json", [i \in {"a2", "default"} |->
                                                IF i = "a2" THEN SpecA ELSE SpecB])),
     single |-> EmptyMap]

AppsAppCfg ==
    [collected |-> File("json", Text("json", [i \in {"a1", "a2"} |->
                                                IF i = "a1" THEN AppX ELSE AppY])),
     single |-> EmptyMap]

\* The strings handed to AppEnvPlacementStrategy::from_str.
StrategyStrings ==
    {"--default--", "--collection_id--", "--app_id--", "--Default--", "default", "a2", ""}

PlacementStrategies ==
    {Strategy("Default", ""), Strategy("CollectionId", ""), Strategy("AppId", ""),
     Strategy("Custom", "a2"), Strategy("Custom", "default"), Strategy("Custom", "")}

\* The last call of the resolver: arg is the strategy (or the string parsed),
\* value the value returned.
ResolverLast(op, app_id, collection_id, arg, value) ==
    [op |-> op, id |-> app_id, ret |-> "Ok", invoked |-> {}, created |-> {},
     oracle |-> {}, reg |-> EmptyMap, coll |-> collection_id, arg |-> arg, value |-> value]

AppsInit ==
    /\ registered_envs = EmptyMap
    /\ registered_apps = EmptyMap
    /\ env_collections = EmptyMap
    /\ app_collections = EmptyMap
    /\ env_cfg = [b \in BasePaths |-> IF b = "b1" THEN AppsEnvCfg ELSE EmptyCfg]
    /\ app_cfg = [b \in BasePaths |-> IF b = "b1" THEN AppsAppCfg ELSE EmptyCfg]
    /\ actual_files = EmptyMap
    /\ env_dirs = {}
    /\ last = Last("init", "", "Ok")
    /\ opCount = 0

GetEnvIdForApp(app_id, collection_id, placement_strategy) ==
    /\ Running
    /\ opCount' = opCount + 1
    /\ last' = ResolverLast("get_env_id_for_app", app_id, collection_id, placement_strategy,
                            get_env_id_for_app(app_id, collection_id, placement_strategy))
    /\ UNCHANGED <<registered_envs, registered_apps, env_collections, app_collections, disk>>

FromStr(strategy) ==
    /\ Running
    /\ opCount' = opCount + 1
    /\ LET r == from_str(strategy)
       IN last' = [ResolverLast("from_str", "", "", strategy,
                                IF r.ok THEN r.value ELSE "")
                     EXCEPT !.ret = IF r.ok THEN "Ok" ELSE "Err"]
    /\ UNCHANGED <<registered_envs, registered_apps, env_collections, app_collections, disk>>

AppsNext ==
    \/ AddEnvCollection("default", "b1")
    \/ \E c \in CollectionIds, p \in {None} \cup {Some(from_str(s).value) : s \in StrategyStrings} :
          AddAppCollection(c, "b1", p)
    \/ MergeAllApps
    \/ \E ids \in {{}, {"a2", "default"}}, ok \in [AppsEnvIds -> BOOLEAN] : SyncEnvs(ids, ok)
    \/ \E a \in AppIds, c \in CollectionIds, p \in PlacementStrategies : GetEnvIdForApp(a, c, p)
    \/ \E s \in StrategyStrings : FromStr(s)

AppsSpec == AppsInit /\ [][AppsNext]_vars

(***************************************************************************)
(* Two contexts side by side: VivaContext::create for two applications,    *)
(* each with its own project directories, hence its own base_env_path and  *)
(* its own configuration directory, and one caller that interleaves their  *)
(* calls.  Every variable of the context is kept per application; env_dirs *)
(* and actual_files are kept per base_env_path, env_cfg per configuration  *)
(* directory.                                                              *)
(***************************************************************************)
Applications == {"viva1", "viva2"}

base_env_path_fixed(application) == "viva1/envs"

\* VivaContext::create: project_dirs.data_dir().join("envs")
base_env_path(application) ==
    IF application = "viva1" THEN "viva1/envs" ELSE "viva2/envs"

\* project_dirs.config_dir(), the base path of the application's collections
config_dir(application) == IF application = "viva1" THEN "b1" ELSE "b2"

\* The context of an application and the disk as its calls see it.
Context(application) ==
    [envs |-> registered_envs[application],
     cols |-> env_collections[application],
     cfg |-> env_cfg,
     dirs |-> env_dirs[base_env_path(application)],
     files |-> actual_files[base_env_path(application)]]

Returned(ctx, ret) == [ctx |-> ctx, ret |-> ret]

\* VivaContext::add_env_collection on a context.
context_add_env_collection(ctx, collection_id, collection) ==
    LET res == add_env_collection_loop(ctx.envs, ctx.files, get_env_ids_of(collection),
                                       collection_id, collection, EmptyMap)
    IN Returned([ctx EXCEPT !.envs = res.envs,
                            !.cols = IF res.ok THEN Put(@, collection_id, collection)
                                     ELSE @],
                IF res.ok THEN "Ok" ELSE "Err")

\* VivaContext::add_env on a context.
context_add_env(ctx, env_id, env, collection_id) ==
    LET env_col_name == IF collection_id.some THEN collection_id.value ELSE "default"
        env_spec == IF env.some THEN env.value ELSE VivaEnvSpec_new
    IN IF env_id \in DOMAIN ctx.envs THEN Returned(ctx, "Err")
       ELSE IF env_col_name \notin DOMAIN ctx.cols THEN Returned(ctx, "panic")
       ELSE LET env_col == ctx.cols[env_col_name]
                base == env_col.base_config_path
                w == set_env(env_col, ctx.cfg[base], env_id, env_spec)
                r == add_registered_env(ctx.envs, ctx.files, env_id, env_col_name,
                                        env_spec, FALSE)
            IN Returned([ctx EXCEPT !.cols[env_col_name] = w.coll,
                                    !.cfg[base] = w.cfg,
                                    !.envs = r.envs],
                        IF r.ret = "Err" THEN "Err" ELSE "Ok")

\* VivaContext::merge_env_specs on a context.
context_merge_env_specs(ctx, target_env_id, spec_to_merge, update_env_spec, add_if_not_exist) ==
    IF target_env_id \notin DOMAIN ctx.envs /\ ~add_if_not_exist
    THEN Returned(ctx, "Err")
    ELSE LET r == IF target_env_id \notin DOMAIN ctx.envs
                  THEN add_registered_env(ctx.envs, ctx.files, target_env_id,
                                          "default", spec_to_merge, FALSE)
                  ELSE [ret |-> "registered", envs |-> ctx.envs]
         IN IF r.ret = "Err" THEN Returned(ctx, "panic")
            ELSE LET env == merge_spec(r.envs[target_env_id], spec_to_merge)
                     merged == [ctx EXCEPT !.envs = [r.envs EXCEPT ![target_env_id] = env]]
                     col_id == env.collection_id
                 IN IF ~update_env_spec THEN Returned(merged, "Ok")
                    ELSE IF col_id \notin DOMAIN ctx.cols THEN Returned(merged, "panic")
                    ELSE LET env_col == ctx.cols[col_id]
                             base == env_col.base_config_path
                             w == set_env(env_col, ctx.cfg[base], target_env_id, env.spec)
                         IN Returned([merged EXCEPT !.cols[col_id] = w.coll,
                                                    !.cfg[base] = w.cfg],
                                     "Ok")

\* VivaContext::sync_envs on a context, the HashSet iterated in the given order.
context_sync_envs(ctx, order, create_ok) ==
    IF \E n \in 1..Len(order) : ~Contains(get_env_ids(ctx.envs), order[n])
    THEN Returned(ctx, "Err")
    ELSE LET env_ids_to_sync == IF Len(order) = 0 THEN get_env_ids(ctx.envs) ELSE order
             res == sync_envs_loop(ctx.envs, ctx.files, env_ids_to_sync, create_ok, {}, {})
         IN Returned([ctx EXCEPT !.envs = res.envs,
                                 !.files = res.files,
                                 !.dirs = @ \cup res.created],
                     IF res.ok THEN "Ok" ELSE "Err")

\* VivaContext::remove_env on a context.
context_remove_env(ctx, env_id) ==
    IF env_id \notin DOMAIN ctx.envs THEN Returned(ctx, "Err")
    ELSE LET env_col_name == ctx.envs[env_id].collection_id
         IN IF env_col_name \notin DOMAIN ctx.cols THEN Returned(ctx, "panic")
            ELSE LET env_col == ctx.cols[env_col_name]
                     base == env_col.base_config_path
                     d == delete_env(env_col, ctx.cfg[base], env_id)
                 IN Returned([ctx EXCEPT !.cols[env_col_name] = d.coll,
                                         !.cfg[base] = d.cfg,
                                         !.envs = Remove(@, env_id),
                                         !.dirs = @ \ {env_id},
                                         !.files = Remove(@, env_id)],
                             "Ok")

\* The last call of the caller: the application whose context it was made on.
PairLast(application, op, id, ret) ==
    [op |-> op, id |-> id, ret |-> ret, invoked |-> {}, created |-> {},
     oracle |-> {}, reg |-> EmptyMap, application |-> application]

PairInit ==
    /\ registered_envs = [a \in Applications |-> EmptyMap]
    /\ registered_apps = [a \in Applications |-> EmptyMap]
    /\ env_collections = [a \in Applications |-> EmptyMap]
    /\ app_collections = [a \in Applications |-> EmptyMap]
    /\ env_cfg = [b \in BasePaths |-> IF b = "b1" THEN EnvCfgConsolidated ELSE EnvCfgOverride]
    /\ app_cfg = [b \in BasePaths |-> EmptyCfg]
    /\ actual_files \in [{base_env_path(a) : a \in Applications} -> InitActualFiles]
    /\ env_dirs = [p \in DOMAIN actual_files |-> DOMAIN actual_files[p]]
    /\ last = PairLast("", "init", "", "Ok")
    /\ opCount = 0

\* A call on the context of an application has returned.
ContextCall(application, op, id, returned) ==
    /\ Running
    /\ opCount' = opCount + 1
    /\ registered_envs' = [registered_envs EXCEPT ![application] = returned.ctx.envs]
    /\ env_collections' = [env_collections EXCEPT ![application] = returned.ctx.cols]
    /\ env_cfg' = returned.ctx.cfg
    /\ env_dirs' = [env_dirs EXCEPT ![base_env_path(application)] = returned.ctx.dirs]
    /\ actual_files' = [actual_files EXCEPT ![base_env_path(application)] = returned.ctx.files]
    /\ last' = PairLast(application, op, id, returned.ret)
    /\ UNCHANGED <<registered_apps, app_collections, app_cfg>>

\* DefaultEnvCollection::create(config_dir) followed by add_env_collection.
PairAddEnvCollection(application, collection_id) ==
    \E collection \in load_registered_envs(config_dir(application),
                                           env_cfg[config_dir(application)]) :
        ContextCall(application, "add_env_collection", collection_id,
                    IF collection.ok
                    THEN context_add_env_collection(Context(application), collection_id,
                                                    collection.value)
                    ELSE Returned(Context(application), "Err"))

PairAddEnv(application, env_id, env, collection_id) ==
    ContextCall(application, "add_env", env_id,
                context_add_env(Context(application), env_id, env, collection_id))

PairMergeEnvSpecs(application, target_env_id, spec_to_merge, update_env_spec, add_if_not_exist) ==
    ContextCall(application, "merge_env_specs", target_env_id,
                context_merge_env_specs(Context(application), target_env_id, spec_to_merge,
                                        update_env_spec, add_if_not_exist))

PairSyncEnvs(application, env_ids, create_ok) ==
    \E order \in Orders(env_ids) :
        ContextCall(application, "sync_envs", "",
                    context_sync_envs(Context(application), order, create_ok))

PairRemoveEnv(application, env_id) ==
    ContextCall(application, "remove_env", env_id,
                context_remove_env(Context(application), env_id))

PairNext ==
    \E a \in Applications :
        \/ PairAddEnvCollection(a, "default")
        \/ \E s \in {SpecA, SpecB} : PairAddEnv(a, "e1", Some(s), None)
        \/ \E s \in {SpecA, SpecB}, u \in BOOLEAN :
              PairMergeEnvSpecs(a, "e1", s, u, TRUE)
        \/ \E ids \in {{}, {"e1"}}, ok \in BOOLEAN :
              PairSyncEnvs(a, ids, [i \in EnvIds |-> ok])
        \/ PairRemoveEnv(a, "e1")

PairSpec == PairInit /\ [][PairNext]_vars

(***************************************************************************)
(* Properties                                                              *)
(***************************************************************************)
Range(s) == {s[i] : i \in 1..Len(s)}

Covers(desired, actual) ==
    /\ Range(desired.channels) \subseteq Range(actual.channels)
    /\ Range(desired.pkg_specs) \subseteq Range(actual.pkg_specs)

IsEmptySpec(spec) == spec.channels = << >> /\ spec.pkg_specs = << >>

MergeOps == {"add_channels", "add_pkg_specs", "merge_spec"}

\* C1: in every reachable state, every environment whose sync_status is
\* Synced has every channel of its desired spec in actual.channels and every
\* pkg_spec of its desired spec in actual.pkg_specs.
C1_SyncedImpliesSatisfied ==
    \A id \in DOMAIN registered_envs :
        registered_envs[id].sync_status = "Synced"
            => Covers(registered_envs[id].spec, registered_envs[id].actual)

\* A Synced environment with packages in its desired spec, after a sync.
C1_Witness ==
    \E id \in DOMAIN registered_envs :
        /\ registered_envs[id].sync_status = "Synced"
        /\ registered_envs[id].spec.pkg_specs # << >>
        /\ last.op = "sync_envs" /\ id \in last.created

\* C2: an environment with a non-empty desired spec and an empty actual is
\* NotSynced after every merge, stays NotSynced across merges and failed
\* syncs, and becomes Synced only in a step in which the Materializer
\* succeeded for it, and then actual equals spec.
C2_Step ==
    \A id \in (DOMAIN registered_envs) \cap (DOMAIN registered_envs') :
        LET e == registered_envs[id]
            f == registered_envs'[id]
        IN /\ ( /\ last'.op \in MergeOps \cup {"merge_env_specs"}
                /\ last'.id = id
                /\ last'.ret = "Ok"
                /\ IsEmptySpec(f.actual) /\ ~IsEmptySpec(f.spec) )
              => f.sync_status = "NotSynced"
           /\ ( /\ IsEmptySpec(e.actual) /\ ~IsEmptySpec(e.spec)
                /\ e.sync_status = "NotSynced" )
              => \/ f.sync_status = "NotSynced" /\ IsEmptySpec(f.actual)
                 \/ /\ f.sync_status = "Synced"
                    /\ id \in last'.created
                    /\ f.actual = f.spec

C2_NotSyncedUntilSyncSucceeds == [][C2_Step]_vars

\* A merge has just left an environment with nothing materialized NotSynced.
C2_Witness ==
    /\ last.op = "merge_spec"
    /\ last.id \in DOMAIN registered_envs
    /\ IsEmptySpec(registered_envs[last.id].actual)
    /\ registered_envs[last.id].spec.pkg_specs # << >>
    /\ registered_envs[last.id].sync_status = "NotSynced"

\* C3: when sync() is called on an environment whose desired spec is not
\* satisfied by actual and the Materializer succeeds, sync returns true, the
\* in-memory actual equals the desired spec, the actual-spec file holds that
\* spec, and sync_status is Synced.
C3_Step ==
    /\ ( /\ last'.op = "sync"
         /\ last'.id \in last'.oracle
         /\ ~Covers(registered_envs[last'.id].spec, registered_envs[last'.id].actual) )
       => last'.ret = "Ok(true)" /\ last'.id \in last'.created
    /\ \A id \in last'.created :
          /\ registered_envs'[id].spec = registered_envs[id].spec
          /\ registered_envs'[id].actual = registered_envs[id].spec
          /\ id \in DOMAIN actual_files'
          /\ read_model_spec("VivaEnvSpec", ENV_SPEC_FILE_EXT, actual_files'[id])
                = Ok(registered_envs[id].spec)
          /\ registered_envs'[id].sync_status = "Synced"

C4_Step ==
    /\ \A id \in last'.invoked \ last'.created :
          /\ last'.ret = "Err"
          /\ registered_envs'[id].sync_status = "NotSynced"
          /\ registered_envs'[id].spec = registered_envs[id].spec
          /\ registered_envs'[id].actual = registered_envs[id].actual
          /\ (id \in DOMAIN actual_files') = (id \in DOMAIN actual_files)
          /\ id \in DOMAIN actual_files => actual_files'[id] = actual_files[id]
    /\ \A id \in DOMAIN actual_files' :
          (id \notin DOMAIN actual_files \/ actual_files'[id] # actual_files[id])
              => id \in last'.created

C4_SyncFailure == [][C4_Step]_vars

C4_Witness ==
    /\ last.op = "sync" /\ last.ret = "Err" /\ last.invoked = {last.id}
    /\ registered_envs[last.id].sync_status = "NotSynced"
    /\ last.id \notin DOMAIN actual_files

\* C5: sync() on an environment whose status is Synced, or is Unknown and
\* recomputes to Synced, returns false without invoking the Materializer
\* and leaves spec, actual and the actual-spec file unchanged.
C5_Step ==
    last'.op \in {"sync", "sync_envs"} =>
        \A id \in DOMAIN registered_envs :
            LET e == registered_envs[id]
            IN ( \/ e.sync_status = "Synced"
                 \/ e.sync_status = "Unknown" /\ Covers(e.spec, e.actual) )
               => /\ id \notin last'.invoked
                  /\ registered_envs'[id].spec = e.spec
                  /\ registered_envs'[id].actual = e.actual
                  /\ (id \in DOMAIN actual_files') = (id \in DOMAIN actual_files)
                  /\ id \in DOMAIN actual_files => actual_files'[id] = actual_files[id]
                  /\ (last'.op = "sync" /\ last'.id = id) => last'.ret = "Ok(false)"

C5_SyncedIsNoOp == [][C5_Step]_vars

C5_Witness ==
    /\ last.op = "sync" /\ last.ret = "Ok(false)" /\ last.invoked = {}
    /\ last.id \in last.oracle

\* C6: after add_channels, add_pkg_specs or merge_spec returns, the
\* environment's sync_status is Synced if the resulting desired spec is
\* satisfied by actual and NotSynced otherwise, never Unknown.
C6_MergeResolvesStatus ==
    (last.op \in MergeOps \cup {"merge_env_specs"} /\ last.ret = "Ok") =>
        LET e == registered_envs[last.id]
        IN e.sync_status = IF Covers(e.spec, e.actual) THEN "Synced" ELSE "NotSynced"

C6_Witness ==
    /\ last.op = "add_channels"
    /\ registered_envs[last.id].sync_status = "Synced"
    /\ registered_envs[last.id].spec.channels # << >>

\* C7 as stated: immediately after an environment is registered from a
\* collection or via add_env, its sync_status is not Unknown.
C7_Original ==
    (last.op \in {"add_env_collection", "add_env"} /\ last.ret = "Ok") =>
        \A id \in DOMAIN last.reg :
            last.reg[id] = "Ok(true)" => registered_envs[id].sync_status # "Unknown"

\* C7 amended: immediately after an environment is registered from a
\* collection or via add_env, its sync_status is Unknown; it is computed
\* against actual only by a later status check, merge or sync.
C7_RegisteredIsUnknown ==
    (last.op \in {"add_env_collection", "add_env"} /\ last.ret = "Ok") =>
        \A id \in DOMAIN last.reg :
            last.reg[id] = "Ok(true)" => registered_envs[id].sync_status = "Unknown"

\* An environment registered from a collection whose actual-spec file
\* satisfies its desired spec.
C7_Witness ==
    /\ last.op = "add_env_collection" /\ last.ret = "Ok"
    /\ \E id \in DOMAIN last.reg :
          /\ last.reg[id] = "Ok(true)"
          /\ id \in DOMAIN actual_files
          /\ ~IsEmptySpec(registered_envs[id].spec)
          /\ Covers(registered_envs[id].spec, registered_envs[id].actual)

C8_Step ==
    /\ \A id \in DOMAIN registered_envs' :
          ( /\ id \notin DOMAIN actual_files'
            /\ ~IsEmptySpec(registered_envs'[id].spec)
            /\ registered_envs'[id].sync_status # "Unknown" )
          => registered_envs'[id].sync_status = "NotSynced"
    /\ ( /\ last'.op = "sync"
         /\ last'.id \notin DOMAIN actual_files
         /\ ~IsEmptySpec(registered_envs[last'.id].spec) )
       => last'.id \in last'.invoked

C9_Step ==
    /\ (last'.op = "add_env" /\ last'.id \in DOMAIN registered_envs)
          => last'.ret = "Err" /\ registered_envs' = registered_envs
    /\ last'.op = "add_env_collection" =>
          \A id \in (DOMAIN last'.reg) \cap (DOMAIN registered_envs) :
              /\ last'.reg[id] = "Ok(false)"
              /\ registered_envs'[id] = registered_envs[id]
    /\ last'.op = "add_app" =>
          \A id \in (DOMAIN last'.reg) \cap (DOMAIN registered_apps) :
              /\ last'.reg[id] = "Err" /\ last'.ret = "Err"
              /\ registered_apps'[id] = registered_apps[id]
    /\ last'.op = "add_app_collection" =>
          \A id \in (DOMAIN last'.reg) \cap (DOMAIN registered_apps) :
              /\ last'.reg[id] = "Ok(false)"
              /\ registered_apps'[id] = registered_apps[id]

C9_DuplicateRegistration == [][C9_Step]_vars

\* add_app has just been refused for an id registered with another spec.
C9_Witness ==
    /\ last.op = "add_app" /\ last.ret = "Err"
    /\ last.id \in DOMAIN registered_apps
    /\ \E c \in DOMAIN app_collections :
          /\ last.id \in DOMAIN app_collections[c].registered_apps
          /\ app_collections[c].registered_apps[last.id] # registered_apps[last.id].spec

\* C10: when a collection containing an id x that is already registered
\* from an earlier collection is added, the call succeeds, the record of x
\* keeps the spec and collection id it had, and the id listing contains x
\* exactly once.
C10_Step ==
    last'.op = "add_env_collection" =>
        \A x \in (DOMAIN last'.reg) \cap (DOMAIN registered_envs) :
            /\ last'.ret = "Ok"
            /\ last'.id \in DOMAIN env_collections'
            /\ registered_envs'[x].spec = registered_envs[x].spec
            /\ registered_envs'[x].collection_id = registered_envs[x].collection_id
            /\ Occurrences(get_env_ids(registered_envs'), x) = 1

C10_FirstCollectionWins == [][C10_Step]_vars

\* A second collection holding another spec for a registered id was added.
C10_Witness ==
    /\ last.op = "add_env_collection" /\ last.ret = "Ok"
    /\ \E x \in DOMAIN last.reg :
          /\ last.reg[x] = "Ok(false)"
          /\ registered_envs[x].collection_id # last.id
          /\ collection_get_env(env_collections[last.id], x).value # registered_envs[x].spec
          /\ registered_envs[x].collection_id \in DOMAIN env_collections
          /\ collection_get_env(env_collections[registered_envs[x].collection_id], x).value
                = registered_envs[x].spec

\* C11: get_env, remove_env and merge_env_specs with add_if_not_exist = false,
\* called with an id that is not registered, return an error and leave the
\* registry, the collections and the disk as they were.
C11_Step ==
    /\ (last'.op \in {"get_env", "remove_env"} /\ last'.id \notin DOMAIN registered_envs)
          => /\ last'.ret = "Err"
             /\ UNCHANGED <<registered_envs, registered_apps, env_collections,
                            app_collections, disk>>
    /\ \A i \in EnvIds \ DOMAIN registered_envs, s \in SpecInputs, u \in BOOLEAN :
          MergeEnvSpecs(i, s, u, FALSE)
          => /\ last'.ret = "Err"
             /\ UNCHANGED <<registered_envs, registered_apps, env_collections,
                            app_collections, disk>>

C11_UnknownIdIsAnError == [][C11_Step]_vars

\* remove_env has just been refused for an id that is not registered, while
\* another environment is registered from a collection.
C11_Witness ==
    /\ last.op = "remove_env" /\ last.ret = "Err"
    /\ last.id \notin DOMAIN registered_envs
    /\ registered_envs # EmptyMap
    /\ env_collections # EmptyMap

\* C12: after remove_env(id) returns successfully, id is no longer registered
\* and not listed, its materialization directory does not exist, its
\* collection holds no spec for id, and a fresh collection built from the
\* same base path does not hold id either.
C12_Step ==
    (last'.op = "remove_env" /\ last'.ret = "Ok") =>
        LET id == last'.id
            c == registered_envs[id].collection_id
            base == env_collections[c].base_config_path
        IN /\ id \notin DOMAIN registered_envs'
           /\ ~Contains(get_env_ids(registered_envs'), id)
           /\ id \notin env_dirs'
           /\ ~collection_get_env(env_collections'[c], id).ok
           /\ \A fresh \in load_registered_envs(base, env_cfg'[base]) :
                 fresh.ok => ~collection_get_env(fresh.value, id).ok

C12_RemovedStaysRemoved == [][C12_Step]_vars

\* The entries of the consolidated document found under a configuration
\* directory, and the specs held by the per-id files of x.
ConsolidatedEntries(T, cfg) ==
    LET file == IF "json" \in DOMAIN cfg.collected THEN "json" ELSE "yaml"
    IN IF file \in DOMAIN cfg.collected /\ parse_models_spec(T, cfg.collected[file]).ok
       THEN parse_models_spec(T, cfg.collected[file]).value
       ELSE EmptyMap

PerIdFiles(cfg, x) == {f \in DOMAIN cfg.single : f[1] = x}

PerIdSpecs(T, cfg, x) ==
    {read_model_spec(T, f[2], cfg.single[f]).value : f \in PerIdFiles(cfg, x)}

\* C13: for the environment store and the app store, when the consolidated
\* document contains id x with spec S1 and a per-id file for x holds spec
\* S2, the loaded collection returns S2 for x.
C13_Step ==
    /\ last'.op = "add_env_collection" =>
          LET coll == env_collections'[last'.id]
              cfg == env_cfg[coll.base_config_path]
          IN \A x \in DOMAIN ConsolidatedEntries("VivaEnvSpec", cfg) :
                PerIdFiles(cfg, x) # {} =>
                    /\ collection_get_env(coll, x).ok
                    /\ collection_get_env(coll, x).value \in PerIdSpecs("VivaEnvSpec", cfg, x)
    /\ last'.op = "add_app_collection" =>
          LET coll == app_collections'[last'.id]
              cfg == app_cfg[coll.base_config_path]
          IN \A x \in DOMAIN ConsolidatedEntries("VivaAppSpec", cfg) :
                PerIdFiles(cfg, x) # {} =>
                    /\ collection_get_app(coll, x).ok
                    /\ collection_get_app(coll, x).value \in PerIdSpecs("VivaAppSpec", cfg, x)

C13_OverridePrecedence == [][C13_Step]_vars

\* Both stores are loaded from directories in which a per-id file holds a
\* spec other than the consolidated one.
C13_Witness ==
    /\ last.op = "add_app_collection"
    /\ "default" \in DOMAIN env_collections
    /\ LET coll == env_collections["default"]
           cfg == env_cfg[coll.base_config_path]
       IN \E x \in DOMAIN ConsolidatedEntries("VivaEnvSpec", cfg) :
             /\ Cardinality(PerIdFiles(cfg, x)) = 1
             /\ ConsolidatedEntries("VivaEnvSpec", cfg)[x] \notin PerIdSpecs("VivaEnvSpec", cfg, x)
             /\ collection_get_env(coll, x).value \in PerIdSpecs("VivaEnvSpec", cfg, x)
    /\ LET coll == app_collections["default"]
           cfg == app_cfg[coll.base_config_path]
       IN \E x \in DOMAIN ConsolidatedEntries("VivaAppSpec", cfg) :
             /\ Cardinality(PerIdFiles(cfg, x)) = 1
             /\ ConsolidatedEntries("VivaAppSpec", cfg)[x] \notin PerIdSpecs("VivaAppSpec", cfg, x)
             /\ collection_get_app(coll, x).value \in PerIdSpecs("VivaAppSpec", cfg, x)

\* C14: after a successful load, the id listing of the collection contains
\* every id found in the consolidated document or in the per-id directory
\* exactly once.
C14_Step ==
    last'.op = "add_env_collection" =>
        LET coll == env_collections'[last'.id]
            cfg == env_cfg[coll.base_config_path]
        IN \A x \in (DOMAIN ConsolidatedEntries("VivaEnvSpec", cfg))
                        \cup {f[1] : f \in DOMAIN cfg.single} :
              Occurrences(get_env_ids_of(coll), x) = 1

C14_EachIdListedOnce == [][C14_Step]_vars

\* A collection loaded from a directory holding one id in both layouts and
\* another id in the consolidated document only.
C14_Witness ==
    /\ last.op = "add_env_collection"
    /\ LET coll == env_collections[last.id]
           cfg == env_cfg[coll.base_config_path]
       IN /\ \E x \in DOMAIN ConsolidatedEntries("VivaEnvSpec", cfg) : PerIdFiles(cfg, x) # {}
          /\ \E x \in DOMAIN ConsolidatedEntries("VivaEnvSpec", cfg) : PerIdFiles(cfg, x) = {}
          /\ Len(get_env_ids_of(coll)) = 2

\* C15: set_env(id, spec) writes the spec to the per-id layout and does not
\* add id to the consolidated document; afterwards id is not in the
\* consolidated part of the collection, is listed exactly once, and reads
\* return the new spec.
C15_Step ==
    last'.op = "set_env" =>
        LET id == last'.id
            coll == env_collections'[last'.coll]
            base == coll.base_config_path
        IN /\ <<id, "yaml">> \in DOMAIN env_cfg'[base].single
           /\ read_model_spec("VivaEnvSpec", "yaml", env_cfg'[base].single[<<id, "yaml">>])
                 = Ok(last'.arg)
           /\ id \notin DOMAIN ConsolidatedEntries("VivaEnvSpec", env_cfg[base])
                 => id \notin DOMAIN ConsolidatedEntries("VivaEnvSpec", env_cfg'[base])
           /\ id \notin DOMAIN coll.collected_envs
           /\ Occurrences(get_env_ids_of(coll), id) = 1
           /\ collection_get_env(coll, id) = Ok(last'.arg)

C15_SetEnvMovesIdToPerIdLayout == [][C15_Step]_vars

\* C16: after delete_env(id) returns, get_env(id) fails and get_env_ids does
\* not contain id, whichever layout held id.
C16_Step ==
    last'.op = "delete_env" =>
        /\ ~collection_get_env(env_collections'[last'.coll], last'.id).ok
        /\ ~Contains(get_env_ids_of(env_collections'[last'.coll]), last'.id)

C16_DeleteEnvRemovesId == [][C16_Step]_vars

\* The text of a per-id file with extension ext is not a T document in the
\* format of its name (any of the two formats when it has no extension).
Malformed(T, ext, doc) ==
    \/ doc.syntax = "none"
    \/ ext = "json" /\ doc.syntax \notin {"json", "json_only"}
    \/ ext \in {"yaml", "yml"} /\ doc.syntax \notin {"json", "yaml"}
    \/ ~Deserialize(T, doc.value).ok

\* The text of a consolidated file is not a map of T in any format.
MalformedMap(T, doc) == doc.syntax = "none" \/ ~Deserialize_BTreeMap(T, doc.value).ok

\* The configuration directory holds a malformed consolidated document or a
\* malformed per-id document.
HasMalformedDocument(T, cfg) ==
    \/ LET file == IF "json" \in DOMAIN cfg.collected THEN "json" ELSE "yaml"
       IN file \in DOMAIN cfg.collected /\ MalformedMap(T, cfg.collected[file])
    \/ \E f \in DOMAIN cfg.single : Malformed(T, f[2], cfg.single[f])

\* C17: when the consolidated document or a per-id document under the base
\* path is malformed, creating the collection fails and yields no
\* collection: the context holds no new collection and no entry of the
\* directory is registered.
C17_Step ==
    \A c \in CollectionIds, b \in BasePaths :
        (AddEnvCollection(c, b) /\ HasMalformedDocument("VivaEnvSpec", env_cfg[b]))
        => /\ last'.op = "create_env_collection" /\ last'.ret = "Err"
           /\ UNCHANGED <<env_collections, registered_envs, disk>>

C17_NoPartialLoad == [][C17_Step]_vars

\* The creation of a collection has just failed over a directory that holds
\* a malformed per-id document next to a well-formed consolidated document
\* and a well-formed per-id document.
C17_Witness ==
    /\ last.op = "create_env_collection" /\ last.ret = "Err"
    /\ env_collections = EmptyMap /\ registered_envs = EmptyMap
    /\ \E b \in BasePaths :
          /\ ConsolidatedEntries("VivaEnvSpec", env_cfg[b]) # EmptyMap
          /\ \E f \in DOMAIN env_cfg[b].single :
                Malformed("VivaEnvSpec", f[2], env_cfg[b].single[f])
          /\ \E f \in DOMAIN env_cfg[b].single :
                ~Malformed("VivaEnvSpec", f[2], env_cfg[b].single[f])

\* The Result a codec call returned.
ResultOf(l) == IF l.ret = "Ok" THEN Ok(l.value) ELSE Err

\* C18: read_model_spec selects the decoder by the extension of the file:
\* json gives the result of the JSON decoder alone, yaml and yml the result
\* of the YAML decoder alone, no extension the result of content
\* auto-detection, and any other extension an error whatever the content.
C18_Step ==
    last'.op = "read_model_spec" =>
        LET T == last'.coll
            ext == last'.id[2]
            doc == FilesOf(T)[last'.id]
            json == serde_json_from_str(T, doc)
            yaml == serde_yaml_from_str(T, doc)
        IN /\ ext = "json" => ResultOf(last') = json
           /\ ext \in {"yaml", "yml"} => ResultOf(last') = yaml
           /\ ext = "" => ResultOf(last') = IF json.ok THEN json ELSE yaml
           /\ ext \notin {"json", "yaml", "yml", ""} => ResultOf(last') = Err

C18_DecoderByExtension == [][C18_Step]_vars

\* A file with an unrecognized extension that holds well-formed JSON text
\* has just been read, and the read failed.
C18_Witness ==
    /\ last.op = "read_model_spec" /\ last.ret = "Err"
    /\ last.id[2] = "txt"
    /\ serde_json_from_str(last.coll, FilesOf(last.coll)[last.id]).ok

\* C19: content auto-detection (parse_model_spec, parse_models_spec) returns
\* the result of the JSON decoder when JSON decoding succeeds, otherwise the
\* result of the YAML decoder when that succeeds, and an error only when both
\* decoders fail.
C19_Step ==
    last'.op \in {"parse_model_spec", "parse_models_spec"} =>
        LET T == IF last'.op = "parse_model_spec" THEN last'.coll ELSE BTreeMap(last'.coll)
            json == serde_json_from_str(T, last'.arg)
            yaml == serde_yaml_from_str(T, last'.arg)
        IN /\ json.ok => ResultOf(last') = json
           /\ (~json.ok /\ yaml.ok) => ResultOf(last') = yaml
           /\ last'.ret = "Err" <=> (~json.ok /\ ~yaml.ok)

C19_JsonThenYaml == [][C19_Step]_vars

\* A text that only the YAML decoder accepts has just been parsed.
C19_Witness ==
    /\ last.op = "parse_model_spec" /\ last.ret = "Ok"
    /\ ~serde_json_from_str(last.coll, last.arg).ok
    /\ ResultOf(last) = Ok(SampleSpec(last.coll))

\* C20: decoding the encoding of a spec value yields the value, with the
\* JSON decoder and with the YAML decoder; a spec written by write_model_spec
\* to a .json, .yaml or .yml file is read back unchanged by read_model_spec.
C20_Step ==
    last'.op = "write_model_spec" =>
        LET T == last'.coll
            file == last'.id
            model_spec == last'.arg
            written == IF T = "VivaEnvSpec" THEN env_cfg'["b1"].single
                       ELSE app_cfg'["b1"].single
        IN /\ serde_json_from_str(T, serde_json_to_string(model_spec)) = Ok(model_spec)
           /\ serde_yaml_from_str(T, serde_json_to_string(model_spec)) = Ok(model_spec)
           /\ file[2] \in {"json", "yaml", "yml"}
                 => read_model_spec(T, file[2], written[file]) = Ok(model_spec)

C21_Step ==
    (last'.op = "merge_spec" /\ last.op = "merge_spec" /\ last'.arg = last.arg)
    => /\ VivaEnvSpec_eq(registered_envs'["e1"].spec, registered_envs["e1"].spec)
       /\ registered_envs'["e1"].spec = registered_envs["e1"].spec
       /\ registered_envs'["e1"].sync_status = registered_envs["e1"].sync_status

C21_MergeIdempotent == [][C21_Step]_vars

\* A spec with a channel and a package the environment did not have has been
\* merged into it twice in a row.
C21_Witness ==
    /\ last.op = "merge_spec" /\ last.prev.op = "merge_spec" /\ last.prev.arg = last.arg
    /\ opCount = 2
    /\ "bioconda" \in Range(last.arg.channels)
    /\ "pandas" \in Range(last.arg.pkg_specs)
    /\ last.before = registered_envs["e1"].spec
    /\ \E spec \in EngineSpecs :
          /\ ~Covers(last.arg, spec)
          /\ merge_spec(VivaEnv_create("default", spec, VivaEnvSpec_new, "Unknown"),
                        last.arg).spec = registered_envs["e1"].spec

\* C22: satisfaction is monotone in actual: every spec d that is satisfied by
\* the spec a of an environment is still satisfied by the spec the
\* environment has after any spec x was merged into it.
C22_Step ==
    last'.op = "merge_spec" =>
        \A d \in EngineSpecs :
            is_satisfied_by(d, registered_envs["e1"].spec)
                => is_satisfied_by(d, registered_envs'["e1"].spec)

C22_SatisfactionMonotone == [][C22_Step]_vars

\* d was found satisfied by the environment's spec; then a spec x that d does
\* not cover was merged in, and it added a channel and a package.
C22_Witness ==
    /\ last.op = "merge_spec"
    /\ last.prev.op = "is_satisfied_by" /\ last.prev.value = TRUE
    /\ ~IsEmptySpec(last.prev.arg)
    /\ Len(registered_envs["e1"].spec.channels) > Len(last.before.channels)
    /\ Len(registered_envs["e1"].spec.pkg_specs) > Len(last.before.pkg_specs)
    /\ is_satisfied_by(last.prev.arg, last.before)
    /\ is_satisfied_by(last.prev.arg, registered_envs["e1"].spec)

\* C23: desired.is_satisfied_by(actual) is true exactly when every channel of
\* desired occurs in actual.channels and every pkg_spec of desired occurs in
\* actual.pkg_specs, whatever the order, the repetitions and the extra
\* entries of actual; the empty desired spec is satisfied by every actual.
C23_IsSatisfiedByIsContainment ==
    last.op = "is_satisfied_by" =>
        /\ last.value = (/\ Range(last.arg.channels)
                               \subseteq Range(registered_envs["e1"].spec.channels)
                         /\ Range(last.arg.pkg_specs)
                               \subseteq Range(registered_envs["e1"].spec.pkg_specs))
        /\ IsEmptySpec(last.arg) => last.value = TRUE

\* A desired spec that repeats its entries was found satisfied by a spec that
\* lists them once, in another position, among entries desired does not have.
C23_Witness ==
    /\ last.op = "is_satisfied_by" /\ last.value = TRUE
    /\ last.arg = VivaEnvSpec(<<"conda-forge", "conda-forge">>, <<"numpy", "numpy">>)
    /\ registered_envs["e1"].spec = VivaEnvSpec(<<"bioconda", "conda-forge">>, <<"pandas", "numpy">>)

\* C24: after merge_spec(b) on an environment whose desired spec was a, the
\* environment's channels are the deduplicated union of a.channels and
\* b.channels and its pkg_specs the deduplicated union of a.pkg_specs and
\* b.pkg_specs: no entry of a or b is lost and no entry occurs twice.
C24_Step ==
    last'.op = "merge_spec" =>
        LET a == registered_envs["e1"].spec
            b == last'.arg
            merged == registered_envs'["e1"].spec
        IN /\ Range(merged.channels) = Range(a.channels) \cup Range(b.channels)
           /\ Range(merged.pkg_specs) = Range(a.pkg_specs) \cup Range(b.pkg_specs)
           /\ \A c \in Range(merged.channels) : Occurrences(merged.channels, c) = 1
           /\ \A p \in Range(merged.pkg_specs) : Occurrences(merged.pkg_specs, p) = 1

C24_MergeIsDeduplicatedUnion == [][C24_Step]_vars

\* C25: the placement resolver is total and has no side effects: for every
\* app id, collection id and strategy, get_env_id_for_app returns "default"
\* for Default, the collection id for CollectionId, the app id for AppId and
\* the given id for Custom(id), and changes nothing; from_str never fails and
\* maps every string other than the three reserved markers to Custom of that
\* string; add_app_collection without a placement registers under "default".
C25_Step ==
    /\ last'.op = "get_env_id_for_app" =>
          /\ last'.ret = "Ok"
          /\ last'.arg.kind = "Default" => last'.value = "default"
          /\ last'.arg.kind = "CollectionId" => last'.value = last'.coll
          /\ last'.arg.kind = "AppId" => last'.value = last'.id
          /\ last'.arg.kind = "Custom" => last'.value = last'.arg.e_id
          /\ UNCHANGED <<registered_envs, registered_apps, env_collections,
                         app_collections, disk>>
    /\ last'.op = "from_str" =>
          /\ last'.ret = "Ok"
          /\ last'.arg = "--default--" => last'.value.kind = "Default"
          /\ last'.arg = "--collection_id--" => last'.value.kind = "CollectionId"
          /\ last'.arg = "--app_id--" => last'.value.kind = "AppId"
          /\ last'.arg \notin {"--default--", "--collection_id--", "--app_id--"}
                => last'.value = Strategy("Custom", last'.arg)
          /\ UNCHANGED <<registered_envs, registered_apps, env_collections,
                         app_collections, disk>>
    /\ \A c \in CollectionIds :
          AddAppCollection(c, "b1", None) =>
              \A a \in DOMAIN registered_apps' \ DOMAIN registered_apps :
                  registered_apps'[a].env_id = "default"

C25_ResolverIsTotal == [][C25_Step]_vars

\* With apps and environments registered, the resolver has just been asked
\* for the environment of an app under a Custom placement naming an
\* environment other than the app's collection, its id and "default".
C25_Witness ==
    /\ last.op = "get_env_id_for_app"
    /\ last.arg = Strategy("Custom", "a2")
    /\ last.id = "a1" /\ last.coll = "other"
    /\ last.value = "a2"
    /\ registered_apps # EmptyMap /\ registered_envs # EmptyMap

\* C26: the env_id of a registered app never changes: every operation of the
\* context leaves every registered app registered, with the env_id it was
\* registered with.
C26_Step ==
    \A a \in DOMAIN registered_apps :
        /\ a \in DOMAIN registered_apps'
        /\ registered_apps'[a].env_id = registered_apps[a].env_id

C26_EnvIdIsFixed == [][C26_Step]_vars

\* a1 was registered from the collection "other" under the Default placement;
\* add_app for a1 in that collection, whose placement (CollectionId or
\* Custom("e1")) resolves to another environment, has just been refused.
C26_Witness ==
    /\ last.op = "add_app" /\ last.id = "a1" /\ last.ret = "Err"
    /\ DOMAIN app_collections = {"other"}
    /\ "a1" \in DOMAIN registered_apps
    /\ registered_apps["a1"].env_id = "default"

\* C27: add_app and add_app_collection (with the creation of its collection)
\* leave every registered environment as it was (desired spec, actual,
\* sync_status), register and create no environment, and leave the
\* environment collections and the environments' files untouched.
C27_Step ==
    last'.op \in {"add_app", "add_app_collection", "create_app_collection"}
    => UNCHANGED <<registered_envs, env_collections, env_cfg, env_dirs, actual_files>>

C27_AppRegistrationLeavesEnvs == [][C27_Step]_vars

\* add_app has just registered an app whose environment is registered and
\* lacks a channel or a package the app requires.
C27_Witness ==
    /\ last.op = "add_app" /\ last.ret = "Ok"
    /\ LET app == registered_apps[last.id]
       IN /\ app.env_id \in DOMAIN registered_envs
          /\ ~Covers(app.spec.env_spec, registered_envs[app.env_id].spec)

\* C28: when merge_all_apps has returned successfully, for every registered
\* app the environment named by the app's env_id is registered and its
\* desired spec has every channel and every pkg_spec of the app's env_spec.
C28_MergeAllAppsFoldsEveryApp ==
    (last.op = "merge_all_apps" /\ last.ret = "Ok") =>
        \A a \in DOMAIN registered_apps :
            LET app == registered_apps[a]
            IN /\ app.env_id \in DOMAIN registered_envs
               /\ Covers(app.spec.env_spec, registered_envs[app.env_id].spec)

\* merge_all_apps has folded two apps into the environment a2, which was
\* loaded without packages and now has the package the second app requires.
C28_Witness ==
    /\ last.op = "merge_all_apps" /\ last.ret = "Ok"
    /\ DOMAIN registered_apps = {"a1", "a2"}
    /\ \A a \in DOMAIN registered_apps : registered_apps[a].env_id = "a2"
    /\ "numpy" \in Range(registered_envs["a2"].spec.pkg_specs)
    /\ "conda-forge" \in Range(registered_envs["a2"].spec.channels)

\* C29: merge_all_apps and sync_envs abort on the first failing item.
\* merge_all_apps returns an error exactly when the environment of some app
\* is not registered, and then no environment holds an entry that it did not
\* hold before and that no app processed before the first failing one
\* brought.  When sync_envs fails on an environment, there is a processing
\* order of the requested ids in which every environment after the failing
\* one is exactly as before and was not handed to the Materializer, and every
\* environment before it is Synced.
C29_Step ==
    /\ last'.op = "merge_all_apps" =>
          LET app_ids == get_app_ids(registered_apps)
              failing == {k \in 1..Len(app_ids) :
                             registered_apps[app_ids[k]].env_id \notin DOMAIN registered_envs}
              first == CHOOSE k \in failing : \A j \in failing : k <= j
              merged(e) == {registered_apps[app_ids[j]].spec.env_spec :
                               j \in {i \in 1..(first - 1) :
                                         registered_apps[app_ids[i]].env_id = e}}
          IN /\ last'.ret = "Err" <=> failing # {}
             /\ failing # {} =>
                   /\ DOMAIN registered_envs' = DOMAIN registered_envs
                   /\ \A e \in DOMAIN registered_envs :
                         /\ Range(registered_envs'[e].spec.channels) \subseteq
                               Range(registered_envs[e].spec.channels)
                               \cup UNION {Range(spec.channels) : spec \in merged(e)}
                         /\ Range(registered_envs'[e].spec.pkg_specs) \subseteq
                               Range(registered_envs[e].spec.pkg_specs)
                               \cup UNION {Range(spec.pkg_specs) : spec \in merged(e)}
                         /\ merged(e) = {} => registered_envs'[e] = registered_envs[e]
    /\ (last'.op = "sync_envs" /\ last'.ret = "Err") =>
          \A ids \in {{}, {"a2", "default"}}, ok \in [AppsEnvIds -> BOOLEAN] :
              (ids \subseteq DOMAIN registered_envs /\ SyncEnvs(ids, ok)) =>
                  \E order \in IF ids = {} THEN {get_env_ids(registered_envs)}
                               ELSE Orders(ids) :
                      \E k \in 1..Len(order) :
                          /\ order[k] \in last'.invoked /\ ~ok[order[k]]
                          /\ registered_envs'[order[k]].sync_status = "NotSynced"
                          /\ \A j \in (k + 1)..Len(order) :
                                /\ registered_envs'[order[j]] = registered_envs[order[j]]
                                /\ order[j] \notin last'.invoked
                                /\ order[j] \in DOMAIN actual_files'
                                      <=> order[j] \in DOMAIN actual_files
                          /\ \A j \in 1..(k - 1) :
                                registered_envs'[order[j]].sync_status = "Synced"

C29_BatchAbortsOnFirstFailure == [][C29_Step]_vars

\* merge_all_apps has failed on a1, whose environment is not registered; a2,
\* next in order, has its environment registered, and that environment still
\* lacks the package a2 requires.
C29_Witness ==
    /\ last.op = "merge_all_apps" /\ last.ret = "Err"
    /\ DOMAIN registered_apps = {"a1", "a2"}
    /\ registered_apps["a1"].env_id \notin DOMAIN registered_envs
    /\ registered_apps["a2"].env_id \in DOMAIN registered_envs
    /\ ~Covers(registered_apps["a2"].spec.env_spec,
               registered_envs[registered_apps["a2"].env_id].spec)

\* C30: delete_app(id) on the default app collection completes without
\* aborting the program and, afterwards, id is neither listed by nor
\* retrievable from the collection.
C30_Step ==
    last'.op = "delete_app" =>
        /\ last'.ret # "panic"
        /\ ~Contains(get_app_ids_of(app_collections'[last'.coll]), last'.id)
        /\ ~collection_get_app(app_collections'[last'.coll], last'.id).ok

C30_DeleteAppIsImplemented == [][C30_Step]_vars

\* C32: a merge that adds nothing (every channel and every pkg_spec of the
\* merged spec is already in the environment's desired spec) leaves the
\* desired spec and the sync_status exactly as they were, whatever the status
\* was before, Unknown included.
C32_Step ==
    (last'.op = "merge_spec" /\ Covers(last'.arg, registered_envs["e1"].spec))
    => /\ registered_envs'["e1"].spec = registered_envs["e1"].spec
       /\ registered_envs'["e1"].sync_status = registered_envs["e1"].sync_status

C32_NoOpMergeLeavesStatus == [][C32_Step]_vars

\* C33: the actual spec of a registered environment changes only in a sync
\* (sync or sync_envs) whose Materializer call for that environment succeeded,
\* and then becomes the desired spec; every other call (registration of a
\* duplicate, merge_spec, add_channels, add_pkg_specs, remove_channels, status
\* checks, merge_all_apps, merge_env_specs) and every failed sync leaves the
\* actual spec of every environment as it was.
C33_Step ==
    \A i \in DOMAIN registered_envs \cap DOMAIN registered_envs' :
        registered_envs'[i].actual # registered_envs[i].actual
        => /\ last'.op \in {"sync", "sync_envs"}
           /\ i \in last'.created
           /\ registered_envs'[i].actual = registered_envs'[i].spec

C33_ActualChangesOnlyOnSync == [][C33_Step]_vars

\* A sync of e1 called the Materializer and failed: the actual spec is still
\* the one read from the actual-spec file, though the desired spec has more.
C33_Witness ==
    /\ last.op \in {"sync", "sync_envs"} /\ last.ret = "Err"
    /\ "e1" \in last.invoked /\ "e1" \notin last.created
    /\ "e1" \in DOMAIN registered_envs
    /\ registered_envs["e1"].actual = VivaEnvSpec(<<"conda-forge">>, <<"numpy">>)
    /\ ~is_satisfied_by(registered_envs["e1"].spec, registered_envs["e1"].actual)

\* C34: merge_env_specs(id, s, update, add_if_not_exist = true) on an id that
\* is not registered returns successfully and registers id under collection
\* "default" with desired spec equal to s, whether or not a collection named
\* "default" has been added to the registry.
C34_Step ==
    \A i \in EnvIds, s \in SpecInputs, u \in BOOLEAN :
        (i \notin DOMAIN registered_envs /\ MergeEnvSpecs(i, s, u, TRUE))
        => /\ last'.ret = "Ok"
           /\ i \in DOMAIN registered_envs'
           /\ registered_envs'[i].collection_id = "default"
           /\ registered_envs'[i].spec = s

C34_MergeCreatesUnderDefault == [][C34_Step]_vars

\* C36: add_app with an id that is already registered (into a collection the
\* registry holds) returns an error and leaves the registry's app record, the
\* spec the app collection holds for that id and its spec file unchanged;
\* add_env with an id that is already registered returns an error and leaves
\* the environment collections and their files unchanged.
C36_Step ==
    /\ \A a \in AppIds, s \in AppSpecInputs, c \in CollectionIds, p \in StrategyInputs :
          (/\ a \in DOMAIN registered_apps
           /\ c \in DOMAIN app_collections
           /\ AddApp(a, s, c, p))
          => /\ last'.ret = "Err"
             /\ registered_apps' = registered_apps
             /\ collection_get_app(app_collections'[c], a)
                   = collection_get_app(app_collections[c], a)
             /\ app_cfg' = app_cfg
    /\ (last'.op = "add_env" /\ last'.id \in DOMAIN registered_envs)
          => /\ last'.ret = "Err"
             /\ env_collections' = env_collections
             /\ env_cfg' = env_cfg

C36_DuplicateAddChangesNothing == [][C36_Step]_vars

\* C37: in every reachable state of the registry, the collection_id of every
\* registered environment is the id of an environment collection the registry
\* holds, so that persisting or removing the environment finds its owning
\* collection.
C37_EnvsHaveCollections ==
    \A i \in DOMAIN registered_envs :
        registered_envs[i].collection_id \in DOMAIN env_collections

\* C40: sync_envs given a set that contains an unregistered id returns an
\* error before syncing anything: no environment's actual or sync_status
\* changes, the Materializer is not invoked and the disk is as it was.  Given
\* the empty set it processes every registered environment: when it returns
\* Ok every registered environment is Synced with its desired spec satisfied
\* by actual, and when it returns an error the Materializer was invoked.
C40_Step ==
    last'.op = "sync_envs" =>
    \A ids \in SUBSET EnvIds :
        SyncEnvs(ids, [i \in EnvIds |-> i \in last'.oracle]) =>
            /\ (ids \ DOMAIN registered_envs # {})
                  => /\ last'.ret = "Err"
                     /\ registered_envs' = registered_envs
                     /\ last'.invoked = {} /\ last'.created = {}
                     /\ UNCHANGED disk
            /\ (ids = {} /\ last'.ret = "Ok")
                  => \A i \in DOMAIN registered_envs :
                        /\ registered_envs'[i].sync_status = "Synced"
                        /\ is_satisfied_by(registered_envs'[i].spec,
                                           registered_envs'[i].actual)
            /\ (ids = {} /\ last'.ret = "Err") => last'.invoked # {}

C40_SyncEnvsChecksIdsFirst == [][C40_Step]_vars

\* sync_envs was given an unregistered id next to e1, which is registered and
\* whose desired spec actual does not satisfy: it returned an error and
\* called the Materializer for nothing.
C40_Witness ==
    /\ last.op = "sync_envs" /\ last.ret = "Err" /\ last.invoked = {}
    /\ DOMAIN registered_envs = {"e1"}
    /\ registered_envs["e1"].sync_status # "Synced"
    /\ ~is_satisfied_by(registered_envs["e1"].spec, registered_envs["e1"].actual)

\* C38: after a successful add_env, and after a successful merge_env_specs
\* with update_env_spec = true, the spec the environment's collection holds
\* for it (get_env of the collection, and the file envs/<id>.yaml the
\* collection wrote) equals the registry's desired spec for it;
\* merge_env_specs with update_env_spec = false and merge_all_apps leave the
\* environment collections and their files unchanged.
C38_Step ==
    /\ (last'.op = "add_env" /\ last'.ret = "Ok")
          => LET env == registered_envs'[last'.id]
                 coll == env_collections'[env.collection_id]
             IN /\ collection_get_env(coll, last'.id) = Ok(env.spec)
                /\ read_model_spec("VivaEnvSpec", "yaml",
                       env_cfg'[coll.base_config_path].single[<<last'.id, "yaml">>])
                   = Ok(env.spec)
    /\ last'.op = "merge_env_specs"
          => \A s \in SpecInputs, a \in BOOLEAN :
                /\ (MergeEnvSpecs(last'.id, s, TRUE, a) /\ last'.ret = "Ok")
                      => LET env == registered_envs'[last'.id]
                             coll == env_collections'[env.collection_id]
                         IN /\ collection_get_env(coll, last'.id) = Ok(env.spec)
                            /\ read_model_spec("VivaEnvSpec", "yaml",
                                   env_cfg'[coll.base_config_path].single[<<last'.id, "yaml">>])
                               = Ok(env.spec)
                /\ MergeEnvSpecs(last'.id, s, FALSE, a)
                      => /\ env_collections' = env_collections
                         /\ env_cfg' = env_cfg
    /\ last'.op = "merge_all_apps"
          => /\ env_collections' = env_collections
             /\ env_cfg' = env_cfg

C38_StoredSpecFollowsDesired == [][C38_Step]_vars

\* merge_env_specs with update_env_spec = true added a channel to e1, which
\* came from a consolidated file: the collection now holds the merged spec
\* for e1 next to the entry it loaded.
C38_Witness ==
    /\ last.op = "merge_env_specs" /\ last.ret = "Ok" /\ last.id = "e1"
    /\ "e1" \in DOMAIN registered_envs
    /\ registered_envs["e1"].spec = VivaEnvSpec(<<"conda-forge">>, <<"numpy">>)
    /\ registered_envs["e1"].collection_id \in DOMAIN env_collections
    /\ LET coll == env_collections[registered_envs["e1"].collection_id]
       IN /\ "e1" \in DOMAIN coll.collected_envs
          /\ coll.collected_envs["e1"] = VivaEnvSpec(<< >>, <<"numpy">>)
          /\ collection_get_env(coll, "e1") = Ok(registered_envs["e1"].spec)

\* The ids of the consolidated document that a per-id file overrides.
Overridden(cfg) ==
    {x \in DOMAIN ConsolidatedEntries("VivaEnvSpec", cfg) : PerIdFiles(cfg, x) # {}}

\* C35: when the load of a collection finds a per-id file overriding an entry
\* of the consolidated document, it marks the consolidated document dirty,
\* and the next write-back (the sync_config of the next set_env or
\* delete_env) rewrites the consolidated document on disk: afterwards it
\* holds none of the overridden ids and every other entry as it was.
C35_Step ==
    /\ (last'.op = "add_env_collection" /\ last'.ret = "Ok")
          => LET coll == env_collections'[last'.id]
             IN coll.collected_envs_dirty
                   = (Overridden(env_cfg[coll.base_config_path]) # {})
    /\ (/\ last.op = "add_env_collection" /\ last.ret = "Ok"
        /\ last'.op \in {"set_env", "delete_env"})
          => LET base == env_collections[last.id].base_config_path
                 before == ConsolidatedEntries("VivaEnvSpec", env_cfg[base])
                 file == find_collected_envs_file(env_cfg'[base])
             IN Overridden(env_cfg[base]) # {}
                   => /\ file \in DOMAIN env_cfg'[base].collected
                      /\ read_models_spec("VivaEnvSpec", env_cfg'[base].collected[file])
                            = Ok([x \in DOMAIN before \ Overridden(env_cfg[base]) |->
                                     before[x]])

C35_DirtyConsolidatedIsRewritten == [][C35_Step]_vars

\* A collection was loaded from a directory whose consolidated document held
\* default and e1 and whose per-id directory held e1; the write-back of the
\* next call has left a consolidated document holding default only.
C35_Witness ==
    /\ opCount = 2 /\ last.op \in {"set_env", "delete_env"}
    /\ env_collections["default"].collected_envs_dirty
    /\ PerIdFiles(env_cfg["b1"], "e1") # {}
    /\ ConsolidatedEntries("VivaEnvSpec", env_cfg["b1"]) = [x \in {"default"} |-> SpecA]

\* C39: store write/load round trip: after set_env(id, s) has returned
\* successfully, every fresh load of the same base path succeeds and yields
\* exactly s for id; after delete_env(id) has returned, no fresh load of the
\* base path yields id; whatever per-id files and consolidated entries for id
\* the base path held beforehand.
C39_Step ==
    /\ last'.op = "set_env" =>
          LET base == env_collections'[last'.coll].base_config_path
          IN \A fresh \in load_registered_envs(base, env_cfg'[base]) :
                /\ fresh.ok
                /\ collection_get_env(fresh.value, last'.id) = Ok(last'.arg)
    /\ last'.op = "delete_env" =>
          LET base == env_collections'[last'.coll].base_config_path
          IN \A fresh \in load_registered_envs(base, env_cfg'[base]) :
                fresh.ok => ~collection_get_env(fresh.value, last'.id).ok

C39_WriteLoadRoundTrip == [][C39_Step]_vars

\* The other application.
Other(application) == CHOOSE a \in Applications : a # application

\* C31: two contexts built on disjoint base paths can run their operations in
\* any interleaving without interference: no call on the context of one
\* application changes the registered environments or the collections of the
\* other, the spec files under the other's configuration directory, or the
\* materialization directories and actual-spec files under the other's
\* base_env_path.  (Environment ids are file names.)
C31_Step ==
    \A a \in Applications :
        last'.application = a =>
            /\ registered_envs'[Other(a)] = registered_envs[Other(a)]
            /\ registered_apps'[Other(a)] = registered_apps[Other(a)]
            /\ env_collections'[Other(a)] = env_collections[Other(a)]
            /\ app_collections'[Other(a)] = app_collections[Other(a)]
            /\ env_cfg'[config_dir(Other(a))] = env_cfg[config_dir(Other(a))]
            /\ env_dirs'[base_env_path(Other(a))] = env_dirs[base_env_path(Other(a))]
            /\ actual_files'[base_env_path(Other(a))] = actual_files[base_env_path(Other(a))]

C31_InstancesDoNotInterfere == [][C31_Step]_vars

\* Both applications hold an environment e1, each from its own configuration
\* directory; viva1 has just materialized its e1, and viva2's e1 is still
\* without directory and actual-spec file.
C31_Witness ==
    /\ last.application = "viva1" /\ last.op = "sync_envs" /\ last.ret = "Ok"
    /\ "e1" \in DOMAIN registered_envs["viva1"]
    /\ "e1" \in DOMAIN registered_envs["viva2"]
    /\ registered_envs["viva1"]["e1"].spec # registered_envs["viva2"]["e1"].spec
    /\ registered_envs["viva1"]["e1"].sync_status = "Synced"
    /\ registered_envs["viva2"]["e1"].sync_status = "Unknown"
    /\ "e1" \in env_dirs[base_env_path("viva1")]
    /\ "e1" \notin env_dirs[base_env_path("viva2")]
    /\ "e1" \notin DOMAIN actual_files[base_env_path("viva2")]

====
